---------------------------- MODULE Spec2Model ----------------------------
(***************************************************************************)
(* Governance pipeline of the coding agent: the ReAct turn loop            *)
(* (core/agent_loop.py), the tool dispatcher (core/tools.py), the security *)
(* gate (core/security.py), the audit trail (core/audit.py), the           *)
(* permission manager (core/permissions.py), the context monitor           *)
(* (core/context_manager.py) and the file tools (tools/file_ops.py).       *)
(*                                                                         *)
(* Representation.  A Python string that the code inspects is modelled by  *)
(* what the code looks at: a path is the sequence of its segments (an      *)
(* absolute path starts with the segment "/"), a command is the sequence   *)
(* of its whitespace-separated tokens.  A dict is the sequence of its      *)
(* <<key, value>> items in insertion order, which is what str(dict)        *)
(* prints.  A text whose content is never inspected is a record            *)
(* [kind, len, notes]: what it says, how long it is, and the notices       *)
(* appended to it by truncation.                                           *)
(***************************************************************************)
EXTENDS Integers, Sequences, FiniteSets, TLC

VARIABLES
    \* AgentLoop configuration (agent_loop.py:98-105)
    max_turns, doom_threshold, on_approval,
    \* AgentState (agent_loop.py:50-58)
    messages, tool_history, turn_count,
    \* position in run() / run_streaming() and their locals
    pc, mode, response, idx, tool_results, final_response,
    \* what the caller observes of the current run
    emitted, returned, stop_reason,
    \* ToolContext (tools.py:19-36) and what it refers to
    has_security, has_audit, allow_network, files_read, audit,
    \* history variables: the last dispatch, what the loop did with the last
    \* call, which tool_history entries ran tool logic, and counters
    last_exec, last_call, history_ran,
    chats, run_chats, runs, logic_runs,
    \* PermissionManager (permissions.py:63-79): whether a callback is
    \* configured, the remembered decisions, and history variables: the last
    \* check_permission call, the answers the callback asked to be remembered,
    \* and the number of calls made of its methods
    on_request, session_approvals, always_approved, always_denied,
    last_check, remembered, perm_ops,
    \* AuditLogger storage (audit.py:54-61): the lines of each session's log
    \* file, the clock datetime.now() reads, and a history variable: the
    \* alterations made to stored lines after they were written
    log_files, now, edits,
    \* ContextManager (context_manager.py:33-43): the last warning level, the
    \* checkpoint file, and a history variable: the check_and_warn calls made
    \* and what load_checkpoint last did
    last_warning_level, checkpoint_file, monitor,
    \* SecurityManager: the last call of a validation method and its result
    \* (a history variable)
    validation,
    \* the file system the file tools work on, and a history variable: the
    \* number of file-tool calls made, the last one, and the paths read_file
    \* has returned the lines of
    disk, file_log

vars == <<max_turns, doom_threshold, on_approval, messages, tool_history,
          turn_count, pc, mode, response, idx, tool_results, final_response,
          emitted, returned, stop_reason, has_security, has_audit,
          allow_network, files_read, audit, last_exec, last_call,
          history_ran, chats, run_chats, runs, logic_runs, on_request,
          session_approvals, always_approved, always_denied, last_check,
          remembered, perm_ops, log_files, now, edits, last_warning_level,
          checkpoint_file, monitor, validation, disk, file_log>>

---------------------------------------------------------------------------
(* Bounds of the exploration *)

\* largest max_turns an AgentLoop is constructed with
MaxTurns == 2
\* largest doom_threshold an AgentLoop is constructed with
MaxDoom == 2
\* most tool calls in one model reply
MaxCalls == 2
\* model calls over the whole behaviour (all runs, across resets)
MaxChats == 2
\* run()/run_streaming() invocations over the whole behaviour
MaxRuns == 2
\* audit entries after which the dispatcher specification stops calling
MaxAudit == 3
\* calls of PermissionManager methods over one behaviour
MaxPermOps == 3
\* check_and_warn calls over one behaviour
MaxChecks == 4
\* most segments of a path, most tokens of a command, given to the
\* validation methods
MaxPathLen == 3
MaxCmdLen == 4
\* log() calls over one behaviour of the audit-log specification
MaxLogs == 2
\* alterations of stored audit lines over one behaviour
MaxEdits == 2
\* largest max_turns / doom_threshold in the repeated-call specification
MaxTurnsRepeat == 13
MaxDoomRepeat == 11
\* longest output and largest max_size given to truncate_output, and how
\* many times it is applied in a row
MaxTextLen == 4
MaxSize == 3
MaxTruncations == 2
\* calls of the file tools over one behaviour
MaxFileOps == 3

(* Program constants *)

\* agent_loop.py:13
MAX_HISTORY_MESSAGES == 20
\* agent_loop.py:14
MAX_TOOL_RESULT_CHARS == 5000
\* agent_loop.py:55, deque(maxlen=10)
TOOL_HISTORY_MAXLEN == 10
\* security.py:28, 50 * 1024
MAX_OUTPUT_SIZE == 51200
\* audit.py:89, result_summary[:500]
SUMMARY_LIMIT == 500
\* tools.py:198, result[:100]
RESULT_SUMMARY_CHARS == 100

---------------------------------------------------------------------------
(* Texts *)

Text(kind, len) == [kind |-> kind, len |-> len, notes |-> <<>>]

EmptyText == Text("", 0)

\* s[:n]
Prefix(s, n) == IF s.len <= n THEN s ELSE [s EXCEPT !.len = n]

\* the length of the notice a truncation appends (its digits vary; one
\* representative length)
NoticeLen == 40

---------------------------------------------------------------------------
(* Dicts in insertion order *)

HasKey(args, k) == \E i \in 1..Len(args) : args[i][1] = k

Get(args, k) == args[CHOOSE i \in 1..Len(args) : args[i][1] = k][2]

\* str(tc.input): the items in insertion order
Str(args) == args

---------------------------------------------------------------------------
(* SecurityManager.validate_path *)

\* Path(config.workspace_root).resolve()
Workspace == <<"/", "ws">>

\* os.path.isabs
IsAbs(path) == Len(path) > 0 /\ path[1] = "/"

\* the symbolic links of the modelled tree: one inside the workspace that
\* leads out of it, one outside that leads back to the workspace root
IsLink(at) == at \in {<<"/", "ws", "link">>, <<"/", "out", "back">>}

LinkTarget(at) ==
    IF at = <<"/", "ws", "link">> THEN <<"/", "out">> ELSE <<"/", "ws">>

\* resolution of ".", ".." and symbolic links, segment by segment
RECURSIVE Normalize(_, _)
Normalize(done, rest) ==
    IF rest = <<>> THEN done
    ELSE LET s == Head(rest) IN
         IF s = ".." THEN
             Normalize(IF Len(done) > 1 THEN SubSeq(done, 1, Len(done) - 1)
                       ELSE done, Tail(rest))
         ELSE IF s = "." THEN Normalize(done, Tail(rest))
         ELSE IF IsLink(Append(done, s))
         THEN Normalize(LinkTarget(Append(done, s)), Tail(rest))
         ELSE Normalize(Append(done, s), Tail(rest))

\* the path joined to the workspace and left unresolved
Resolve_Unresolved(path) == IF IsAbs(path) THEN path ELSE Workspace \o path

\* (self.workspace / path).resolve()  or  Path(path).resolve()
Resolve(path) ==
    Normalize(<<>>, IF IsAbs(path) THEN path ELSE Workspace \o path)

\* resolved.relative_to(self.workspace) does not raise
IsWithin(parts, root) ==
    Len(parts) >= Len(root) /\ SubSeq(parts, 1, Len(root)) = root

\* the entries of SENSITIVE_FILES that a file name can equal (an entry with a
\* slash, ".aws/credentials" or ".ssh/config", never equals a name)
SENSITIVE_FILES ==
    {".env", ".env.local", ".env.production", ".env.development",
     "credentials.json", "secrets.json", "config.secret.json", "id_rsa",
     "id_ed25519", "id_dsa", "id_ecdsa", ".netrc", ".npmrc", ".pypirc"}

\* part.startswith(".env"), over the segments the model uses
StartsWithEnv(part) ==
    part \in {".env", ".env.local", ".env.production", ".env.development",
               ".envrc", ".env.d"}

\* resolved.parts.index(part)
FirstIndex(parts, part) ==
    CHOOSE i \in 1..Len(parts) :
        parts[i] = part /\ \A j \in 1..(i - 1) : parts[j] # part

\* the loop over resolved.parts: TRUE when some part is refused
SensitivePart(parts) ==
    \E i \in 1..Len(parts) :
        \/ StartsWithEnv(parts[i])
        \/ /\ parts[i] \in {".aws", ".ssh"}
           /\ Len(parts) > FirstIndex(parts, parts[i])

\* the reason validate_path returns, "OK" when the path is accepted
validate_path(path) ==
    LET resolved == Resolve(path)
        filename == IF Len(resolved) > 1 THEN resolved[Len(resolved)] ELSE ""
    IN  IF ~IsWithin(resolved, Workspace) THEN "Path outside workspace"
        ELSE IF filename \in SENSITIVE_FILES
             THEN "Access to sensitive file blocked"
        ELSE IF SensitivePart(resolved) THEN "Access blocked"
        ELSE "OK"

---------------------------------------------------------------------------
(* SecurityManager.validate_command *)

\* tokens a then b, separated by whitespace
Adjacent(cmd, a, B) ==
    \E i \in 1..(Len(cmd) - 1) : cmd[i] = a /\ cmd[i + 1] \in B

\* token a, after it (at once or later) a pipe into sh or bash
PipedToShell(cmd, A) ==
    \E i \in 1..Len(cmd) : \E j \in (i + 1)..(Len(cmd) - 1) :
        /\ cmd[i] \in A
        /\ cmd[j] = "|"
        /\ cmd[j + 1] \in {"sh", "bash"}

\* tokens of the model's vocabulary that begin with "/", with "*", with "if="
SlashTokens == {"/", "/etc", "/*"}
StarTokens == {"*", "*.py"}
IfTokens == {"if=/dev/zero"}

\* DANGEROUS_PATTERNS, each read on the token sequence; the fork-bomb and
\* device-redirect patterns start with \b before a non-word character and are
\* matched only inside a token, which the vocabulary does not contain, and
\* the vocabulary has no interpreter for the python -c pattern.
DangerousCommand(cmd) ==
    \/ \E i \in 1..(Len(cmd) - 2) :
          /\ cmd[i] = "rm" /\ cmd[i + 1] = "-rf"
          /\ cmd[i + 2] \in SlashTokens \cup StarTokens
    \/ Adjacent(cmd, "dd", IfTokens)
    \/ \E i \in 1..Len(cmd) : cmd[i] \in {"mkfs", "mkfs.ext4"}
    \/ PipedToShell(cmd, {"curl"})
    \/ PipedToShell(cmd, {"wget"})
    \/ Adjacent(cmd, "chmod", {"777"})
    \/ \E i \in 1..(Len(cmd) - 1) : cmd[i] = "sudo"
    \/ Adjacent(cmd, "nc", {"-l"})
    \/ Adjacent(cmd, "eval", {"$x"})
    \/ \E i \in 1..(Len(cmd) - 1) : \E j \in (i + 1)..(Len(cmd) - 1) :
          /\ cmd[i] = "base64" /\ cmd[i + 1] = "-d"
          /\ cmd[j] = "|" /\ cmd[j + 1] \in {"sh", "bash"}

NETWORK_COMMANDS ==
    {"curl", "wget", "nc", "netcat", "ssh", "scp", "rsync", "ftp", "telnet"}

\* re.search(rf"\b{cmd}\b", command) for some network command
NetworkCommand(cmd) == \E i \in 1..Len(cmd) : cmd[i] \in NETWORK_COMMANDS

\* validate_command that checks nothing once network access is allowed
validate_command_NetworkSkipsAll(cmd, network) ==
    IF network THEN "OK"
    ELSE IF DangerousCommand(cmd) THEN "Blocked"
    ELSE IF NetworkCommand(cmd) THEN "Network command blocked"
    ELSE "OK"

\* the reason validate_command returns, "OK" when the command is accepted
validate_command(cmd, network) ==
    IF DangerousCommand(cmd) THEN "Blocked"
    ELSE IF ~network /\ NetworkCommand(cmd) THEN "Network command blocked"
    ELSE "OK"

---------------------------------------------------------------------------
(* SecurityManager.truncate_output, truncate_tool_result *)

\* <<output, was_truncated>>
truncate_output(output, max_size) ==
    IF output.len <= max_size THEN <<output, FALSE>>
    ELSE <<[output EXCEPT !.len = max_size + NoticeLen,
                          !.notes = Append(@, "OUTPUT TRUNCATED")], TRUE>>

truncate_tool_result(result, max_chars) ==
    IF result.len <= max_chars THEN result
    ELSE [result EXCEPT !.len = max_chars + NoticeLen,
                        !.notes = Append(@, "Truncated")]


\* A text whose characters matter is the sequence of its characters.

\* f"{n:,}": the decimal digits of n, a comma between groups of three
DigitChars == <<"0", "1", "2", "3", "4", "5", "6", "7", "8", "9">>

RECURSIVE Decimal(_)
Decimal(n) ==
    IF n < 10 THEN <<DigitChars[n + 1]>>
    ELSE Append(Decimal(n \div 10), DigitChars[(n % 10) + 1])

RECURSIVE Grouped(_)
Grouped(n) ==
    IF n < 1000 THEN Decimal(n)
    ELSE LET low == n % 1000
             pad == IF low < 10 THEN <<"0", "0">>
                    ELSE IF low < 100 THEN <<"0">> ELSE <<>>
         IN  Grouped(n \div 1000) \o <<",">> \o pad \o Decimal(low)

\* f"\n\n... [OUTPUT TRUNCATED - {omitted:,} bytes omitted]"
TruncationNotice(omitted) ==
    <<"\n", "\n", ".", ".", ".", " ", "[", "O", "U", "T", "P", "U", "T", " ",
      "T", "R", "U", "N", "C", "A", "T", "E", "D", " ", "-", " ">>
        \o Grouped(omitted)
        \o <<" ", "b", "y", "t", "e", "s", " ", "o", "m", "i", "t", "t", "e",
             "d", "]">>

\* max_size or self.config.max_output_size
EffectiveSize(max_size) == IF max_size = 0 THEN MAX_OUTPUT_SIZE ELSE max_size

\* the truncation that keeps the end of the output
truncate_chars_KeepsTail(output, max_size) ==
    LET size == EffectiveSize(max_size) IN
        IF Len(output) <= size THEN <<output, FALSE>>
        ELSE <<SubSeq(output, Len(output) - size + 1, Len(output))
                  \o TruncationNotice(Len(output) - size), TRUE>>

\* truncate_output(output, max_size) on the characters of the output:
\* <<output, was_truncated>>
truncate_chars(output, max_size) ==
    LET size == EffectiveSize(max_size) IN
        IF Len(output) <= size THEN <<output, FALSE>>
        ELSE <<SubSeq(output, 1, size)
                  \o TruncationNotice(Len(output) - size), TRUE>>

---------------------------------------------------------------------------
(* AuditLogger *)

\* keys of the model's vocabulary whose lower-cased name contains one of
\* SENSITIVE_KEYS (password, secret, key, token, credential, api_key, apikey,
\* auth, bearer, private)
SensitiveKeyNames == {"password", "api_key", "auth_token", "private_note"}

\* string values longer than 1000 characters (audit.py:110)
LongValues == {<<"<long text>">>}

\* list values longer than 10 items are replaced by a size marker
\* (audit.py:119)
LIST_LIMIT == 10

\* A parameter value is a string (a token sequence), a dict or a list; the
\* last two carry a tag that no token equals.
Dict(items) == <<"<dict>", items>>

List(elems) == <<"<list>", elems>>

\* isinstance(v, dict), isinstance(v, list), isinstance(v, str)
IsDict(v) == Len(v) = 2 /\ v[1] = "<dict>"

IsList(v) == Len(v) = 2 /\ v[1] = "<list>"

IsStr(v) == ~IsDict(v) /\ ~IsList(v)

RECURSIVE _sanitize_params(_)

\* one iteration of the loop of _sanitize_params
SanitizeItem(item) ==
    IF item[1] \in SensitiveKeyNames THEN <<item[1], <<"[REDACTED]">>>>
    ELSE IF IsStr(item[2]) THEN
        IF item[2] \in LongValues THEN <<item[1], <<"[n chars]">>>>
        ELSE item
    ELSE IF IsDict(item[2]) THEN
        <<item[1], Dict(_sanitize_params(item[2][2]))>>
    ELSE IF Len(item[2][2]) > LIST_LIMIT THEN <<item[1], <<"[n items]">>>>
    ELSE item

_sanitize_params(params) ==
    [i \in 1..Len(params) |-> SanitizeItem(params[i])]

\* AuditLogger.log: the log with one entry appended
AuditLog(log, session_id, action, tool_name, parameters, summary, approved) ==
    Append(log, [session_id |-> session_id,
                 action |-> action,
                 tool_name |-> tool_name,
                 parameters |-> _sanitize_params(parameters),
                 result_summary |-> Prefix(summary, SUMMARY_LIMIT),
                 user_approved |-> approved])

\* the None object, which is not a string; log() has tool_name=None by
\* default and json writes it as null
None == "<None>"

\* f"{v}" for a string or None
FormatField(v) == IF v = None THEN "None" ELSE v

\* the hash input extended with the parameters field
Content_WithParameters(e) ==
    <<ToString(e.timestamp) \o "|" \o e.session_id \o "|" \o e.action
          \o "|" \o FormatField(e.tool_name) \o "|",
      e.result_summary, e.parameters>>

\* the f-string hashed by __post_init__ and by verify_integrity: five fields
\* of the entry joined by "|", the result summary last
Content(e) ==
    <<ToString(e.timestamp) \o "|" \o e.session_id \o "|" \o e.action
          \o "|" \o FormatField(e.tool_name) \o "|",
      e.result_summary>>

\* the fields of a stored line, the hash apart
EntryFields ==
    {"timestamp", "session_id", "action", "tool_name", "parameters",
     "result_summary", "user_approved"}

\* hashlib.sha256(content.encode()).hexdigest()[:32], taken as collision-free
Hash(content) == content

\* AuditEntry(...) and its __post_init__; `e` holds the fields log() passes
AuditEntry(timestamp, e) ==
    LET fields == [timestamp |-> timestamp,
                   session_id |-> e.session_id,
                   action |-> e.action,
                   tool_name |-> e.tool_name,
                   parameters |-> e.parameters,
                   result_summary |-> e.result_summary]
    IN  [timestamp |-> timestamp,
         session_id |-> e.session_id,
         action |-> e.action,
         tool_name |-> e.tool_name,
         parameters |-> e.parameters,
         result_summary |-> e.result_summary,
         user_approved |-> e.user_approved,
         hash |-> Hash(Content(fields))]

\* the session ids in use; the second contains the first
LogSessions == {"s1", "s10"}

\* os.listdir(self.audit_dir), one file per session (a single day)
ListDir == <<"s1", "s10">>

\* session_id in filename, the file being f"{date}_{file_session}.jsonl"
InFilename(session_id, file_session) ==
    \/ session_id = file_session
    \/ session_id = "s1" /\ file_session = "s10"

\* AuditLogger(audit_dir) on an empty directory
AuditLoggerInit ==
    /\ log_files = [f \in LogSessions |-> <<>>]
    /\ now = 0
    /\ edits = <<>>

\* log(), as far as the file: the line appended to the session's file
LogLine(timestamp, c) ==
    AuditEntry(timestamp,
               AuditLog(<<>>, c.session_id, c.action, c.tool_name,
                        c.parameters, c.summary, c.approved)[1])

\* entries.sort(key=lambda x: x.get("timestamp", "")), a stable sort
RECURSIVE InsertByTimestamp(_, _)
InsertByTimestamp(sorted, e) ==
    IF sorted = <<>> THEN <<e>>
    ELSE IF sorted[Len(sorted)].timestamp <= e.timestamp
    THEN Append(sorted, e)
    ELSE Append(InsertByTimestamp(SubSeq(sorted, 1, Len(sorted) - 1), e),
                sorted[Len(sorted)])

RECURSIVE SortByTimestamp(_)
SortByTimestamp(entries) ==
    IF entries = <<>> THEN <<>>
    ELSE InsertByTimestamp(
             SortByTimestamp(SubSeq(entries, 1, Len(entries) - 1)),
             entries[Len(entries)])

\* the lines of the listed files from position i on whose name contains the
\* session id
RECURSIVE ReadFiles(_, _, _)
ReadFiles(files, session_id, i) ==
    IF i > Len(ListDir) THEN <<>>
    ELSE (IF InFilename(session_id, ListDir[i]) THEN files[ListDir[i]]
          ELSE <<>>) \o ReadFiles(files, session_id, i + 1)

get_session_log(files, session_id) ==
    SortByTimestamp(ReadFiles(files, session_id, 1))

\* entry.get("hash") != expected_hash
HashMismatch(entry) == entry.hash # Hash(Content(entry))

\* the indices i of "Entry {i}: Hash mismatch", counted from 0, from
\* position k of the entries on
RECURSIVE Issues(_, _)
Issues(entries, k) ==
    IF k > Len(entries) THEN <<>>
    ELSE (IF HashMismatch(entries[k]) THEN <<k - 1>> ELSE <<>>)
             \o Issues(entries, k + 1)

\* verify_integrity that also wants the timestamps of the entries to differ
verify_integrity_DistinctTimes(files, session_id) ==
    LET entries == get_session_log(files, session_id)
        issues == Issues(entries, 1)
        repeated == \E i, j \in 1..Len(entries) :
                        i # j /\ entries[i].timestamp = entries[j].timestamp
    IN  [valid |-> Len(issues) = 0 /\ ~repeated, issues |-> issues]

\* verify_integrity: (is_valid, issues)
verify_integrity(files, session_id) ==
    LET issues == Issues(get_session_log(files, session_id), 1)
    IN  [valid |-> Len(issues) = 0, issues |-> issues]

---------------------------------------------------------------------------
(* ContextManager *)

\* context_manager.py:28
MAX_TOKENS == 200000

\* WARNING_THRESHOLD_80, _90, _95 (context_manager.py:29-31), in percent
WARNING_THRESHOLD_80 == 80
WARNING_THRESHOLD_90 == 90
WARNING_THRESHOLD_95 == 95

\* checkpoint messages are cut to 500 characters (context_manager.py:153)
CHECKPOINT_MESSAGE_CHARS == 500

\* a message with string content of the given length
Message(role, len) == [role |-> role, len |-> len]

\* total_chars, summed over the messages
RECURSIVE TotalChars(_)
TotalChars(msgs) ==
    IF msgs = <<>> THEN 0 ELSE Head(msgs).len + TotalChars(Tail(msgs))

\* total_chars // 4
estimate_tokens(msgs) == TotalChars(msgs) \div 4

\* get_usage_percent(messages) >= threshold: tokens / MAX_TOKENS compared
\* with 0.80, 0.90 or 0.95, each the float nearest to the exact quotient
UsageAtLeast(msgs, threshold) ==
    estimate_tokens(msgs) * 100 >= threshold * MAX_TOKENS

\* the last three messages of a role, each cut to 500 characters
LastThree(msgs, role) ==
    LET mine == SelectSeq(msgs, LAMBDA m : m.role = role)
        cut == [i \in 1..Len(mine) |->
                   IF mine[i].len <= CHECKPOINT_MESSAGE_CHARS THEN mine[i].len
                   ELSE CHECKPOINT_MESSAGE_CHARS]
    IN  SubSeq(cut, IF Len(cut) > 3 THEN Len(cut) - 2 ELSE 1, Len(cut))

NoData ==
    [tokens |-> 0, last_user_messages |-> <<>>,
     last_assistant_messages |-> <<>>]

\* the checkpoint file: missing, a checkpoint written by save_checkpoint, or
\* something else written in its place
MissingFile == [kind |-> "missing", data |-> NoData]

\* save_checkpoint(messages): the file it writes
save_checkpoint(msgs) ==
    [kind |-> "checkpoint",
     data |-> [tokens |-> estimate_tokens(msgs),
               last_user_messages |-> LastThree(msgs, "user"),
               last_assistant_messages |-> LastThree(msgs, "assistant")]]

\* check_and_warn whose 80% branch tests the level for inequality
check_and_warn_RefiresEighty(level, file, msgs) ==
    IF UsageAtLeast(msgs, WARNING_THRESHOLD_95) THEN
        IF level < 95
        THEN [warning |-> 95, level |-> 95, file |-> file]
        ELSE [warning |-> 0, level |-> level, file |-> file]
    ELSE IF UsageAtLeast(msgs, WARNING_THRESHOLD_90) THEN
        IF level < 90
        THEN [warning |-> 90, level |-> 90, file |-> file]
        ELSE [warning |-> 0, level |-> level, file |-> file]
    ELSE IF UsageAtLeast(msgs, WARNING_THRESHOLD_80) THEN
        IF level # 80
        THEN [warning |-> 80, level |-> 80, file |-> save_checkpoint(msgs)]
        ELSE [warning |-> 0, level |-> level, file |-> file]
    ELSE [warning |-> 0, level |-> level, file |-> file]

\* check_and_warn: the warning returned (0 for None), the last warning level
\* after the call and the checkpoint file after the call
check_and_warn(level, file, msgs) ==
    IF UsageAtLeast(msgs, WARNING_THRESHOLD_95) THEN
        IF level < 95
        THEN [warning |-> 95, level |-> 95, file |-> file]
        ELSE [warning |-> 0, level |-> level, file |-> file]
    ELSE IF UsageAtLeast(msgs, WARNING_THRESHOLD_90) THEN
        IF level < 90
        THEN [warning |-> 90, level |-> 90, file |-> file]
        ELSE [warning |-> 0, level |-> level, file |-> file]
    ELSE IF UsageAtLeast(msgs, WARNING_THRESHOLD_80) THEN
        IF level < 80
        THEN [warning |-> 80, level |-> 80, file |-> save_checkpoint(msgs)]
        ELSE [warning |-> 0, level |-> level, file |-> file]
    ELSE [warning |-> 0, level |-> level, file |-> file]

\* what open(), json.load() and ContextCheckpoint(**data) raise on the file:
\* bytes that are not UTF-8, text that is not JSON, JSON that is not an
\* object with exactly the checkpoint's keys; "" when nothing is raised
LoadRaises(file) ==
    IF file.kind = "undecodable" THEN "UnicodeDecodeError"
    ELSE IF file.kind = "invalid json" THEN "JSONDecodeError"
    ELSE IF file.kind = "wrong shape" THEN "TypeError"
    ELSE ""

\* except (json.JSONDecodeError, TypeError)
LoadCatches(exc) == exc \in {"JSONDecodeError", "TypeError"}

\* load_checkpoint: the exception that reaches the caller ("" for none) and
\* the value returned: "None", or "ContextCheckpoint" with its data
load_checkpoint(file) ==
    IF file.kind = "missing"
    THEN [raises |-> "", value |-> "None", data |-> NoData]
    ELSE IF LoadRaises(file) = ""
    THEN [raises |-> "", value |-> "ContextCheckpoint", data |-> file.data]
    ELSE IF LoadCatches(LoadRaises(file))
    THEN [raises |-> "", value |-> "None", data |-> NoData]
    ELSE [raises |-> LoadRaises(file), value |-> "", data |-> NoData]

\* the highest threshold the usage reaches, 0 below all of them
Band(msgs) ==
    IF UsageAtLeast(msgs, WARNING_THRESHOLD_95) THEN 95
    ELSE IF UsageAtLeast(msgs, WARNING_THRESHOLD_90) THEN 90
    ELSE IF UsageAtLeast(msgs, WARNING_THRESHOLD_80) THEN 80
    ELSE 0

NoLoad == [called |-> FALSE, file |-> "", raises |-> "", value |-> ""]

\* ContextManager(workspace_dir) in a workspace without a checkpoint;
\* monitor records the band of each check_and_warn call, the warnings
\* returned, and the last load_checkpoint call
ContextManagerInit ==
    /\ last_warning_level = 0
    /\ checkpoint_file = MissingFile
    /\ monitor = [observed |-> <<>>, warnings |-> <<>>, load |-> NoLoad]

---------------------------------------------------------------------------
(* The file system of the file tools *)

\* what a path of the file system holds: a file and its characters, a
\* directory, or nothing
File(content) == [kind |-> "file", content |-> content]

Directory == [kind |-> "dir", content |-> <<>>]

Missing == [kind |-> "missing", content |-> <<>>]

\* os.path.exists(path), os.path.isdir(path)
Exists(fs, path) == path \in DOMAIN fs /\ fs[path].kind # "missing"

IsDir(fs, path) == path \in DOMAIN fs /\ fs[path].kind = "dir"

\* the tree the tools start on: a file in the workspace, a path that may
\* hold a file or nothing, and a directory
FileA == <<"/", "ws", "a.txt">>

FileN == <<"/", "ws", "new.txt">>

DirSub == <<"/", "ws", "sub">>

Tree(a, n) == (FileA :> File(a)) @@ (FileN :> n) @@ (DirSub :> Directory)

\* file_log: no call of a file tool made yet
NoFileOp == [fn |-> "", path |-> <<>>, args |-> <<>>, result |-> ""]

NoFileOps == [count |-> 0, last |-> NoFileOp, read |-> {}]

FileSystemInit ==
    /\ disk = Tree(<<"x">>, Missing)
    /\ file_log = NoFileOps

---------------------------------------------------------------------------
(* The components at construction *)

\* validation: a call of a validation method on the security manager and,
\* once it has returned, the reason it returned
NoValidation == [fn |-> "", arg |-> <<>>, result |-> ""]

ComponentsInit ==
    /\ AuditLoggerInit
    /\ ContextManagerInit
    /\ FileSystemInit
    /\ validation = NoValidation

---------------------------------------------------------------------------
(* PermissionManager *)

Sessions == {"s1", "s2"}

\* targets, as token sequences; "*" is the default target of always_allow
\* and always_deny
Targets == {<<"a.txt">>, <<"*">>}

\* DEFAULT_RULES.get(tool_name, PermissionAction.ASK)
Rule(tool_name) ==
    IF tool_name \in {"read_file", "glob", "grep", "list_dir", "view_image",
                      "todo_read", "semantic_search", "todo_write"}
    THEN "ALLOW"
    ELSE IF tool_name \in {"write_file", "edit_file", "create_markdown"}
    THEN "ASK_ONCE"
    ELSE "ASK"

\* f"{tool_name}:{target}"
Pattern(tool_name, target) == <<tool_name, ":">> \o target

\* the answers of the on_permission_request callback
Answers == [allowed : BOOLEAN, remember : BOOLEAN]

NoApprovals == [s \in Sessions |-> [present |-> FALSE, patterns |-> {}]]

NoCheck ==
    [seq |-> 0, session_id |-> "", tool_name |-> "", target |-> <<>>,
     allowed |-> FALSE, reason |-> "", asked |-> FALSE, remember |-> FALSE,
     logged |-> <<>>]

\* PermissionManager(audit_logger, on_permission_request)
PermissionManagerInit(requestSet) ==
    /\ on_request \in requestSet
    /\ session_approvals = NoApprovals
    /\ always_approved = {}
    /\ always_denied = {}
    /\ last_check = NoCheck
    /\ remembered = [granted |-> {}, refused |-> {}]
    /\ perm_ops = 0

\* _log_decision: the log after it
_log_decision(log, session_id, tool_name, target, allowed, reason) ==
    IF has_audit
    THEN AuditLog(log, session_id, "permission_decision", tool_name,
                  <<<<"target", target>>, <<"reason", <<reason>>>>>>,
                  IF allowed THEN Text("Approved", 8) ELSE Text("Denied", 6),
                  allowed)
    ELSE log

\* _remember_decision: the session approvals and the deny set after it
_remember_decision(approvals, denied, session_id, pattern, allowed) ==
    IF allowed
    THEN [approvals |->
              [approvals EXCEPT ![session_id] =
                  [present |-> TRUE,
                   patterns |-> approvals[session_id].patterns
                                    \cup {pattern}]],
          denied |-> denied]
    ELSE [approvals |-> approvals, denied |-> denied \cup {pattern}]

\* what a check leaves unchanged
Decision(allowed, reason, log) ==
    [allowed |-> allowed, reason |-> reason, asked |-> FALSE,
     remember |-> FALSE, audit |-> log, approvals |-> session_approvals,
     denied |-> always_denied]

\* the deny set consulted only after the static ALLOW rule
AlwaysDenied_AfterAllowRule(rule, pattern) ==
    rule # "ALLOW" /\ pattern \in always_denied

\* the deny set giving way to always_allow
AlwaysDenied_UnlessApproved(rule, pattern) ==
    pattern \in always_denied /\ pattern \notin always_approved

\* if pattern in self.always_denied (checked before the static rule)
AlwaysDenied(rule, pattern) == pattern \in always_denied

\* an approval remembered in any session
ApprovedThisSession_AnySession(session_id, pattern) ==
    \E s \in Sessions :
        /\ session_approvals[s].present
        /\ pattern \in session_approvals[s].patterns

\* if session_id in self.session_approvals
\*     and pattern in self.session_approvals[session_id]
ApprovedThisSession(session_id, pattern) ==
    /\ session_approvals[session_id].present
    /\ pattern \in session_approvals[session_id].patterns

\* no handler, and the request allowed
NoHandler_Allows(log) ==
    [allowed |-> TRUE, reason |-> "No permission handler configured",
     asked |-> FALSE, remember |-> FALSE, audit |-> log,
     approvals |-> session_approvals, denied |-> always_denied]

\* return PermissionResult(allowed=False,
\*                         reason="No permission handler configured")
NoHandler(log) ==
    Decision(FALSE, "No permission handler configured", log)

\* _remember_decision that keeps approvals only
Remember_ApprovalsOnly(session_id, pattern, allowed) ==
    IF allowed
    THEN _remember_decision(session_approvals, always_denied, session_id,
                            pattern, TRUE)
    ELSE [approvals |-> session_approvals, denied |-> always_denied]

\* self._remember_decision(session_id, pattern, result.allowed)
Remember(session_id, pattern, allowed) ==
    _remember_decision(session_approvals, always_denied, session_id, pattern,
                       allowed)

\* check_permission: the decision, whether the callback was invoked, and the
\* audit log, session approvals and deny set after the call; `answer` is what
\* the callback returns if it is invoked
check_permission(session_id, tool_name, target, answer) ==
    LET rule == Rule(tool_name)
        pattern == Pattern(tool_name, target)
    IN  IF AlwaysDenied(rule, pattern) THEN
            Decision(FALSE, "Always denied",
                     _log_decision(audit, session_id, tool_name, target,
                                   FALSE, "Always denied"))
        ELSE IF rule = "ALLOW" THEN
            Decision(TRUE, "Tool always allowed", audit)
        ELSE IF rule = "DENY" THEN
            Decision(FALSE, "Tool not permitted",
                     _log_decision(audit, session_id, tool_name, target,
                                   FALSE, "Denied by rule"))
        ELSE IF pattern \in always_approved THEN
            Decision(TRUE, "Always approved", audit)
        ELSE IF rule = "ASK_ONCE" /\ ApprovedThisSession(session_id, pattern)
        THEN
            Decision(TRUE, "Previously approved this session", audit)
        ELSE IF rule = "ASK_ONCE"
                /\ ApprovedThisSession(session_id,
                                       Pattern(tool_name, <<"*">>)) THEN
            Decision(TRUE, "Tool approved for session", audit)
        ELSE IF on_request THEN
            LET mem == IF answer.remember
                       THEN Remember(session_id, pattern, answer.allowed)
                       ELSE [approvals |-> session_approvals,
                             denied |-> always_denied]
            IN  [allowed |-> answer.allowed, reason |-> "callback",
                 asked |-> TRUE, remember |-> answer.remember,
                 audit |-> _log_decision(audit, session_id, tool_name, target,
                                         answer.allowed, "callback"),
                 approvals |-> mem.approvals, denied |-> mem.denied]
        ELSE NoHandler(audit)

---------------------------------------------------------------------------
(* Tools *)

\* ctx.session_id
SessionId == "s1"

\* the registered tools and their requires_approval flag
Registry == {"read_file", "bash"}

RequiresApproval(name) == name = "bash"

\* files of the modelled tree and the length of what read_file prints of them
ExistingFiles ==
    {<<"/", "ws", "a.txt">>, <<"/", "ws", "big.log">>, <<"/", "etc", "passwd">>}

FileOutputLen(path) == IF path = <<"/", "ws", "big.log">> THEN 60000 ELSE 10

\* d in command, for d in dangerous_simple of execute_bash
DangerousSimple(cmd) ==
    \/ \E i \in 1..(Len(cmd) - 2) :
          cmd[i] = "rm" /\ cmd[i + 1] = "-rf" /\ cmd[i + 2] \in SlashTokens
    \/ \E i \in 1..Len(cmd) : cmd[i] \in {"mkfs", "mkfs.ext4"}

\* os.path.normpath: "." dropped and ".." taken against the segment before
\* it, on the text of the path alone (symbolic links are not looked at)
RECURSIVE NormParts(_, _)
NormParts(done, rest) ==
    IF rest = <<>> THEN done
    ELSE LET s == Head(rest) IN
         IF s = ".." THEN
             NormParts(IF Len(done) > 1 THEN SubSeq(done, 1, Len(done) - 1)
                       ELSE done, Tail(rest))
         ELSE IF s = "." THEN NormParts(done, Tail(rest))
         ELSE NormParts(Append(done, s), Tail(rest))

\* os.path.normpath(os.path.join(ctx.working_dir, path)), the working
\* directory being the workspace
normpath(path) ==
    NormParts(<<>>, IF IsAbs(path) THEN path ELSE Workspace \o path)

\* tool.execute(args, ctx): the exception it raised ("none" when it returned),
\* what it returned, and the files-read set it leaves
read_file(args, fr) ==
    IF ~HasKey(args, "file_path")
    THEN [exc |-> "KeyError", result |-> EmptyText, files_read |-> fr]
    ELSE LET path == normpath(Get(args, "file_path")) IN
         IF path \notin ExistingFiles
         THEN [exc |-> "none", result |-> Text("Error: File not found", 30),
               files_read |-> fr]
         ELSE [exc |-> "none",
               result |-> Text("file lines", FileOutputLen(path)),
               files_read |-> fr \cup {path}]

execute_bash(args, fr) ==
    IF ~HasKey(args, "command")
    THEN [exc |-> "KeyError", result |-> EmptyText, files_read |-> fr]
    ELSE IF DangerousSimple(Get(args, "command"))
    THEN [exc |-> "none", result |-> Text("Error: Blocked", 45),
          files_read |-> fr]
    ELSE [exc |-> "none", result |-> Text("command output", 10),
          files_read |-> fr]

ToolLogic(name, args, fr) ==
    IF name = "read_file" THEN read_file(args, fr) ELSE execute_bash(args, fr)


\* read_file(args, ctx) on a file system: what it returns and the
\* files-read set it leaves
read_file_in(fs, args, fr) ==
    LET path == normpath(Get(args, "file_path")) IN
        IF ~Exists(fs, path)
        THEN [result |-> "Error: File not found", files_read |-> fr]
        ELSE IF IsDir(fs, path)
        THEN [result |-> "Error: Path is a directory, not a file",
              files_read |-> fr]
        ELSE [result |-> "file lines", files_read |-> fr \cup {path}]

\* write_file that asks for no earlier read
write_file_Unguarded(fs, args, fr) ==
    LET path == normpath(Get(args, "file_path")) IN
        [result |-> "Successfully wrote",
         files |-> [fs EXCEPT ![path] = File(Get(args, "content"))]]

\* write_file(args, ctx): what it returns and the file system it leaves
write_file(fs, args, fr) ==
    LET path == normpath(Get(args, "file_path")) IN
        IF Exists(fs, path) /\ path \notin fr
        THEN [result |-> "Error: Must read file before overwriting",
              files |-> fs]
        ELSE [result |-> "Successfully wrote",
              files |-> [fs EXCEPT ![path] = File(Get(args, "content"))]]

\* content.count(old_string): occurrences that do not overlap, from the left
RECURSIVE CountOf(_, _)
CountOf(content, old) ==
    IF Len(content) < Len(old) THEN 0
    ELSE IF SubSeq(content, 1, Len(old)) = old
    THEN 1 + CountOf(SubSeq(content, Len(old) + 1, Len(content)), old)
    ELSE CountOf(Tail(content), old)

\* content.replace(old_string, new_string, times)
RECURSIVE Replace(_, _, _, _)
Replace(content, old, new, times) ==
    IF times = 0 \/ Len(content) < Len(old) THEN content
    ELSE IF SubSeq(content, 1, Len(old)) = old
    THEN new \o Replace(SubSeq(content, Len(old) + 1, Len(content)), old,
                        new, times - 1)
    ELSE <<Head(content)>> \o Replace(Tail(content), old, new, times)

\* edit_file(args, ctx) from line 119 on, old_string not empty: the file is
\* looked for, old_string counted and replaced
EditRead(fs, args) ==
    LET path == normpath(Get(args, "file_path"))
        old == Get(args, "old_string")
        replace_all == IF HasKey(args, "replace_all")
                       THEN Get(args, "replace_all") ELSE FALSE
    IN  IF ~Exists(fs, path)
        THEN [result |-> "Error: File not found", files |-> fs]
        ELSE LET content == fs[path].content
                 count == CountOf(content, old)
             IN  IF count = 0
                 THEN [result |-> "Error: old_string not found in file",
                       files |-> fs]
                 ELSE IF count > 1 /\ ~replace_all
                 THEN [result |-> "Error: old_string appears several times",
                       files |-> fs]
                 ELSE [result |-> "Successfully edited",
                       files |->
                           [fs EXCEPT
                               ![path] =
                                   File(Replace(content, old,
                                                Get(args, "new_string"),
                                                IF replace_all THEN count
                                                ELSE 1))]]

\* edit_file that asks for no earlier read
edit_file_Unguarded(fs, args, fr) == EditRead(fs, args)

\* edit_file(args, ctx): what it returns and the file system it leaves
edit_file(fs, args, fr) ==
    IF normpath(Get(args, "file_path")) \notin fr
    THEN [result |-> "Error: Must read file before editing", files |-> fs]
    ELSE EditRead(fs, args)

---------------------------------------------------------------------------
(* ToolRegistry.execute *)

\* the security block without its check of the path parameter
SecurityCheck_NoPathKey(args, network) ==
    IF HasKey(args, "file_path") /\ validate_path(Get(args, "file_path")) # "OK"
    THEN validate_path(Get(args, "file_path"))
    ELSE IF HasKey(args, "command")
            /\ validate_command(Get(args, "command"), network) # "OK"
    THEN validate_command(Get(args, "command"), network)
    ELSE "OK"

\* the security block: the first refusal, "OK" when nothing is refused
SecurityCheck(args, network) ==
    IF HasKey(args, "file_path") /\ validate_path(Get(args, "file_path")) # "OK"
    THEN validate_path(Get(args, "file_path"))
    ELSE IF HasKey(args, "path") /\ validate_path(Get(args, "path")) # "OK"
    THEN validate_path(Get(args, "path"))
    ELSE IF HasKey(args, "command")
            /\ validate_command(Get(args, "command"), network) # "OK"
    THEN validate_command(Get(args, "command"), network)
    ELSE "OK"

\* the validations the security block calls, in order, up to the first refusal
SecurityEvents(args, network) ==
    LET fp == HasKey(args, "file_path")
        fpBad == fp /\ validate_path(Get(args, "file_path")) # "OK"
        pa == ~fpBad /\ HasKey(args, "path")
        paBad == pa /\ validate_path(Get(args, "path")) # "OK"
        co == ~fpBad /\ ~paBad /\ HasKey(args, "command")
    IN  (IF fp THEN <<"validate_path">> ELSE <<>>)
        \o (IF pa THEN <<"validate_path">> ELSE <<>>)
        \o (IF co THEN <<"validate_command">> ELSE <<>>)

\* tool = self.tools.get(name); if not tool
ToolKnown(name) == name \in Registry

\* if ctx.security_manager: ... return f"Security Error: {msg}"
SecurityRefuses(sec, args, network) ==
    sec /\ SecurityCheck(args, network) # "OK"

\* an except clause that lets the exceptions of tool logic through
Catches_OnlyOSError(exc) == exc \in {"OSError"}

\* except Exception as e
Catches(exc) == exc \in {"KeyError", "TypeError", "ValueError", "OSError"}

\* the entries a call appended to the log
Logged(before, after) == SubSeq(after, Len(before) + 1, Len(after))

\* One call of ToolRegistry.execute(name, args, ctx): whether it raises to its
\* caller, the text it returns, the steps it takes in order, the audit log and
\* the files-read set it leaves.
\* ctx = [security, audit_on, network, files_read, audit]
Execute(name, args, ctx) ==
    IF ~ToolKnown(name) THEN
        [outcome |-> "unknown", raises |-> FALSE,
         result |-> Text("Error: Unknown tool", 25),
         events |-> <<>>, audit |-> ctx.audit, files_read |-> ctx.files_read]
    ELSE IF SecurityRefuses(ctx.security, args, ctx.network) THEN
        [outcome |-> "security", raises |-> FALSE,
         result |-> Text("Security Error", 40),
         events |-> SecurityEvents(args, ctx.network),
         audit |-> ctx.audit, files_read |-> ctx.files_read]
    ELSE
        LET pre == IF ctx.security THEN SecurityEvents(args, ctx.network)
                   ELSE <<>>
            log1 == IF ctx.audit_on
                    THEN AuditLog(ctx.audit, SessionId, "tool_call", name,
                                  args, Text("executing...", 12), TRUE)
                    ELSE ctx.audit
            ev1 == pre \o (IF ctx.audit_on THEN <<"log:tool_call">> ELSE <<>>)
            run == ToolLogic(name, args, ctx.files_read)
        IN  IF run.exc # "none" /\ ~Catches(run.exc) THEN
                [outcome |-> "raised", raises |-> TRUE, result |-> EmptyText,
                 events |-> ev1 \o <<"logic">>, audit |-> log1,
                 files_read |-> run.files_read]
            ELSE IF run.exc # "none" THEN
                [outcome |-> "tool_error", raises |-> FALSE,
                 result |-> Text("Error executing", 30),
                 events |-> ev1 \o <<"logic">>
                            \o (IF ctx.audit_on THEN <<"log:tool_error">>
                                ELSE <<>>),
                 audit |-> IF ctx.audit_on
                           THEN AuditLog(log1, SessionId, "tool_error", name,
                                         <<>>, Text("Error executing", 30),
                                         TRUE)
                           ELSE log1,
                 files_read |-> run.files_read]
            ELSE
                LET out == IF ctx.security
                           THEN truncate_output(run.result, MAX_OUTPUT_SIZE)[1]
                           ELSE run.result
                IN  [outcome |-> "ok", raises |-> FALSE, result |-> out,
                     events |-> ev1 \o <<"logic">>
                                \o (IF ctx.security THEN <<"truncate_output">>
                                    ELSE <<>>)
                                \o (IF ctx.audit_on THEN <<"log:tool_result">>
                                    ELSE <<>>),
                     audit |-> IF ctx.audit_on
                               THEN AuditLog(log1, SessionId, "tool_result",
                                             name, <<>>,
                                             Prefix(out, RESULT_SUMMARY_CHARS),
                                             TRUE)
                               ELSE log1,
                     files_read |-> run.files_read]

\* what is remembered of a dispatch
Trace(name, args, ex, log) ==
    [name |-> name, args |-> args, outcome |-> ex.outcome,
     raises |-> ex.raises, result |-> ex.result, events |-> ex.events,
     logged |-> Logged(log, ex.audit)]

Ctx == [security |-> has_security, audit_on |-> has_audit,
        network |-> allow_network, files_read |-> files_read, audit |-> audit]

---------------------------------------------------------------------------
(* Messages and replies *)

Block(type, id, name, body) ==
    [type |-> type, id |-> id, name |-> name, body |-> body]

\* {"role": "user", "content": user_message}
UserMessage(text) ==
    [role |-> "user", content |-> <<Block("text", <<>>, "", text)>>]

\* trim_history keeping one message too many
trim_history_OffByOne(msgs, max_messages) ==
    IF Len(msgs) <= max_messages THEN msgs
    ELSE <<[role |-> "user",
            content |-> <<Block("trimmed", <<>>, "",
                                Text("messages trimmed",
                                     Len(msgs) - max_messages))>>]>>
         \o SubSeq(msgs, Len(msgs) - max_messages, Len(msgs))

\* trim_history
trim_history(msgs, max_messages) ==
    IF Len(msgs) <= max_messages THEN msgs
    ELSE <<[role |-> "user",
            content |-> <<Block("trimmed", <<>>, "",
                                Text("messages trimmed",
                                     Len(msgs) - max_messages))>>]>>
         \o SubSeq(msgs, Len(msgs) - max_messages + 1, Len(msgs))

\* a tool history that evicts nothing
DequeAppend_Unbounded(q, x, n) == Append(q, x)

\* deque(maxlen=n).append
DequeAppend(q, x, n) ==
    IF n = 0 THEN <<>>
    ELSE IF Len(q) < n THEN Append(q, x)
    ELSE Append(Tail(q), x)

\* the calls a model reply is built from
ReadOk == [name |-> "read_file", input |-> <<<<"file_path", <<"a.txt">>>>>>]
ReadBig == [name |-> "read_file", input |-> <<<<"file_path", <<"big.log">>>>>>]
ReadOutside ==
    [name |-> "read_file",
     input |-> <<<<"file_path", <<"..", "etc", "passwd">>>>>>]
ReadEnv == [name |-> "read_file", input |-> <<<<"file_path", <<".env">>>>>>]
ReadNoArgs == [name |-> "read_file", input |-> <<>>]
ReadTwoPaths ==
    [name |-> "read_file",
     input |-> <<<<"file_path", <<"a.txt">>>>, <<"path", <<"/", "etc">>>>>>]
BashOk == [name |-> "bash", input |-> <<<<"command", <<"git", "status">>>>>>]
BashRm == [name |-> "bash", input |-> <<<<"command", <<"rm", "-rf", "/">>>>>>]
BashCurl ==
    [name |-> "bash", input |-> <<<<"command", <<"curl", "http://x">>>>>>]
BashSecret ==
    [name |-> "bash",
     input |-> <<<<"command", <<"git", "status">>>>,
                 <<"api_key", <<"sk-123">>>>>>]
Unknown == [name |-> "deploy", input |-> <<<<"password", <<"hunter2">>>>>>]

\* calls proposed by the model in the loop specifications
LoopCalls == {ReadOk, ReadNoArgs, BashOk, BashRm, Unknown}

\* calls handed to the dispatcher in the dispatcher specification
DispatchCalls ==
    {ReadOk, ReadBig, ReadOutside, ReadEnv, ReadNoArgs, ReadTwoPaths, BashOk,
     BashRm, BashCurl, BashSecret, Unknown}

\* the tool_calls of a reply: one to MaxCalls calls, the i-th carrying the id
\* <<n, i>> of the n-th model call
CallSeqs(calls) ==
    UNION {[1..k -> calls] : k \in 1..MaxCalls}

WithIds(cs, n) ==
    [i \in 1..Len(cs) |-> [id |-> <<n, i>>, name |-> cs[i].name,
                           input |-> cs[i].input]]

ReplyTexts == {EmptyText, Text("model text", 20)}

\* Response objects the backend may return as its n-th reply
Replies(calls, n) ==
    {[text |-> t, tool_calls |-> <<>>] : t \in ReplyTexts}
    \cup {[text |-> EmptyText, tool_calls |-> WithIds(cs, n)] :
              cs \in CallSeqs(calls)}
    \cup {[text |-> Text("model text", 20), tool_calls |-> WithIds(<<c>>, n)] :
              c \in calls}

NoResponse == [text |-> EmptyText, tool_calls |-> <<>>]

NoExec == [name |-> "", args |-> <<>>, outcome |-> "none", raises |-> FALSE,
           result |-> EmptyText, events |-> <<>>, logged |-> <<>>]

NoCall == [name |-> "", approval |-> "none", dispatched |-> FALSE,
           ran |-> FALSE]

---------------------------------------------------------------------------
(* AgentLoop *)

\* (tc.name, str(tc.input))
Key(tc) == <<tc.name, Str(tc.input)>>

\* sum(1 for h in self.state.tool_history if h == key)
Count(history, key) ==
    Cardinality({i \in 1..Len(history) : history[i] = key})

\* _detect_doom_loop looking only at the first call of the reply
DetectDoom_FirstCallOnly(history, tool_calls, threshold) ==
    IF Len(history) < threshold THEN FALSE
    ELSE Count(history, <<tool_calls[1].name, tool_calls[1].input>>)
             >= threshold

\* _detect_doom_loop
_detect_doom_loop(history, tool_calls, threshold) ==
    IF Len(history) < threshold THEN FALSE
    ELSE \E i \in 1..Len(tool_calls) :
             Count(history, Key(tool_calls[i])) >= threshold

\* the loop condition off by one
LoopCond_OffByOne(tc, mt) == tc <= mt

\* the loop condition counting the turns of the current run alone
LoopCond_PerRun(tc, mt) == run_chats < mt

\* while self.state.turn_count < self.max_turns
LoopCond(tc, mt) == tc < mt

\* tool and tool.requires_approval and self.on_approval
AsksApproval(name, callback) ==
    name \in Registry /\ RequiresApproval(name) /\ callback

\* if self.state.turn_count >= self.max_turns, after the loop of run();
\* run_streaming() has no such statement
TurnWarning(m, tc, mt) == m = "run" /\ tc >= mt

FreshState ==
    /\ messages' = <<>>
    /\ tool_history' = <<>>
    /\ history_ran' = <<>>
    /\ turn_count' = 0
    /\ logic_runs' = 0

\* the state after AgentLoop(...) with the given configuration and context
InitWith(turnsSet, doomSet, approvalSet, secSet, auditSet, netSet) ==
    /\ max_turns \in turnsSet
    /\ doom_threshold \in doomSet
    /\ on_approval \in approvalSet
    /\ has_security \in secSet
    /\ has_audit \in auditSet
    /\ allow_network \in netSet
    /\ messages = <<>>
    /\ tool_history = <<>>
    /\ turn_count = 0
    /\ pc = "idle"
    /\ mode = "run"
    /\ response = NoResponse
    /\ idx = 1
    /\ tool_results = <<>>
    /\ final_response = EmptyText
    /\ emitted = <<>>
    /\ returned = EmptyText
    /\ stop_reason = "none"
    /\ files_read = {}
    /\ audit = <<>>
    /\ last_exec = NoExec
    /\ last_call = NoCall
    /\ history_ran = <<>>
    /\ chats = 0
    /\ run_chats = 0
    /\ runs = 0
    /\ logic_runs = 0

configVars == <<max_turns, doom_threshold, on_approval, has_security,
                has_audit, allow_network>>

ctxVars == <<files_read, audit, last_exec>>

permVars == <<on_request, session_approvals, always_approved, always_denied,
              last_check, remembered, perm_ops>>

storeVars == <<log_files, now, edits>>

monitorVars == <<last_warning_level, checkpoint_file, monitor>>

fileVars == <<disk, file_log>>

\* what neither the agent loop nor the permission manager touches
sideVars == <<storeVars, monitorVars, validation, fileVars>>

\* run(user_message) / run_streaming(user_message), up to the while loop
RunStart(m, budget) ==
    /\ pc = "idle"
    /\ runs < MaxRuns
    /\ chats + (IF max_turns > turn_count THEN max_turns - turn_count ELSE 0)
          <= budget
    /\ runs' = runs + 1
    /\ mode' = m
    /\ messages' = Append(messages, UserMessage(Text("user message", 12)))
    /\ final_response' = EmptyText
    /\ emitted' = <<>>
    /\ stop_reason' = "none"
    /\ run_chats' = 0
    /\ pc' = "loop"
    /\ UNCHANGED permVars
    /\ UNCHANGED sideVars
    /\ UNCHANGED <<configVars, ctxVars, tool_history, history_ran, turn_count,
                   response, idx, tool_results, returned, last_call, chats,
                   logic_runs>>

\* the model call raises and the loop goes round again instead of returning
ChatFails_KeepsGoing ==
    /\ pc = "loop"
    /\ LoopCond(turn_count, max_turns)
    /\ turn_count' = turn_count + 1
    /\ chats' = chats + 1
    /\ run_chats' = run_chats + 1
    /\ emitted' = Append(emitted, "error")
    /\ returned' = Text("Error calling LLM", 30)
    /\ stop_reason' = "backend_error"
    /\ pc' = "loop"
    /\ UNCHANGED permVars
    /\ UNCHANGED sideVars
    /\ UNCHANGED <<configVars, ctxVars, messages, tool_history, history_ran,
                   mode, response, idx, tool_results, final_response,
                   last_call, runs, logic_runs>>

\* the model call raises: return error_msg
ChatFails ==
    /\ pc = "loop"
    /\ LoopCond(turn_count, max_turns)
    /\ turn_count' = turn_count + 1
    /\ chats' = chats + 1
    /\ run_chats' = run_chats + 1
    /\ emitted' = Append(emitted, "error")
    /\ returned' = Text("Error calling LLM", 30)
    /\ stop_reason' = "backend_error"
    /\ pc' = "idle"
    /\ UNCHANGED permVars
    /\ UNCHANGED sideVars
    /\ UNCHANGED <<configVars, ctxVars, messages, tool_history, history_ran,
                   mode, response, idx, tool_results, final_response,
                   last_call, runs, logic_runs>>

\* the assistant message built from a reply with tool calls
AssistantMessage(r) ==
    [role |-> "assistant",
     content |->
        (IF r.text # EmptyText THEN <<Block("text", <<>>, "", r.text)>>
         ELSE <<>>)
        \o [i \in 1..Len(r.tool_calls) |->
               Block("tool_use", r.tool_calls[i].id, r.tool_calls[i].name,
                     EmptyText)]]

\* one pass of the while loop from its head to the start of the for loop over
\* the reply's tool calls, the model replying r
TurnBegin(replies) ==
    /\ pc = "loop"
    /\ LoopCond(turn_count, max_turns)
    /\ \E r \in replies :
        /\ turn_count' = turn_count + 1
        /\ chats' = chats + 1
        /\ run_chats' = run_chats + 1
        /\ response' = r
        /\ final_response' = IF r.text # EmptyText THEN r.text
                             ELSE final_response
        /\ IF r.tool_calls = <<>> THEN
               /\ emitted' = emitted
                     \o (IF r.text # EmptyText THEN <<"text">> ELSE <<>>)
               /\ stop_reason' = "completed"
               /\ pc' = "exit"
               /\ UNCHANGED <<messages, idx, tool_results>>
           ELSE IF _detect_doom_loop(tool_history, r.tool_calls, doom_threshold)
           THEN
               /\ emitted' = emitted
                     \o (IF r.text # EmptyText THEN <<"text">> ELSE <<>>)
                     \o <<"doom warning">>
               /\ stop_reason' = "doom"
               /\ pc' = "exit"
               /\ UNCHANGED <<messages, idx, tool_results>>
           ELSE
               /\ emitted' = emitted
                     \o (IF r.text # EmptyText THEN <<"text">> ELSE <<>>)
               /\ messages' = Append(messages, AssistantMessage(r))
               /\ idx' = 1
               /\ tool_results' = <<>>
               /\ pc' = "calls"
               /\ UNCHANGED stop_reason
    /\ UNCHANGED permVars
    /\ UNCHANGED sideVars
    /\ UNCHANGED <<configVars, ctxVars, tool_history, history_ran, mode,
                   returned, last_call, runs, logic_runs>>

\* the result block built without the id of its call
ToolResult_NoId(id, body) == Block("tool_result", <<>>, "", body)

ToolResult(id, body) == Block("tool_result", id, "", body)

\* whether a dispatch reached tool.execute(args, ctx)
RanLogic(ex) == \E i \in 1..Len(ex.events) : ex.events[i] = "logic"

\* one pass of the for loop over response.tool_calls: the approval callback
\* answering `approved` when it is asked.  An exception out of
\* registry.execute is caught nowhere in run(): it ends the run.
ProcessCall(approvals) ==
    /\ pc = "calls"
    /\ idx <= Len(response.tool_calls)
    /\ LET tc == response.tool_calls[idx] IN
       \E approved \in approvals :
        IF AsksApproval(tc.name, on_approval) /\ ~approved THEN
            /\ idx' = idx + 1
            /\ tool_results' =
                  Append(tool_results,
                         ToolResult(tc.id, Text("User denied permission", 42)))
            /\ last_call' = [name |-> tc.name, approval |-> "denied",
                             dispatched |-> FALSE, ran |-> FALSE]
            /\ UNCHANGED <<ctxVars, tool_history, history_ran, logic_runs, pc,
                           returned, stop_reason>>
        ELSE
            LET ex == Execute(tc.name, tc.input, Ctx)
                asked == IF AsksApproval(tc.name, on_approval)
                         THEN "granted" ELSE "not asked"
            IN  /\ last_exec' = Trace(tc.name, tc.input, ex, audit)
                /\ audit' = ex.audit
                /\ files_read' = ex.files_read
                /\ logic_runs' = logic_runs + (IF RanLogic(ex) THEN 1 ELSE 0)
                /\ last_call' = [name |-> tc.name, approval |-> asked,
                                 dispatched |-> TRUE, ran |-> RanLogic(ex)]
                /\ IF ex.raises THEN
                       /\ pc' = "idle"
                       /\ stop_reason' = "exception"
                       /\ returned' = Text("exception", 0)
                       /\ UNCHANGED <<idx, tool_results, tool_history,
                                      history_ran>>
                   ELSE
                       /\ idx' = idx + 1
                       /\ tool_results' =
                             Append(tool_results,
                                    ToolResult(tc.id,
                                               truncate_tool_result(
                                                   ex.result,
                                                   MAX_TOOL_RESULT_CHARS)))
                       /\ tool_history' =
                             DequeAppend(tool_history, Key(tc),
                                         TOOL_HISTORY_MAXLEN)
                       /\ history_ran' =
                             DequeAppend(history_ran, RanLogic(ex),
                                         TOOL_HISTORY_MAXLEN)
                       /\ UNCHANGED <<pc, returned, stop_reason>>
    /\ UNCHANGED permVars
    /\ UNCHANGED sideVars
    /\ UNCHANGED <<configVars, messages, turn_count, mode, response,
                   final_response, emitted, chats, run_chats, runs>>

\* the end of the turn with the tool-result message left empty
TurnEnd_OmitsResults ==
    /\ pc = "calls"
    /\ idx > Len(response.tool_calls)
    /\ messages' =
          trim_history(Append(messages, [role |-> "user", content |-> <<>>]),
                       MAX_HISTORY_MESSAGES)
    /\ pc' = "loop"
    /\ UNCHANGED permVars
    /\ UNCHANGED sideVars
    /\ UNCHANGED <<configVars, ctxVars, tool_history, history_ran, turn_count,
                   mode, response, idx, tool_results, final_response, emitted,
                   returned, stop_reason, last_call, chats, run_chats, runs,
                   logic_runs>>

\* after the for loop: append the tool results, trim, back to the loop head
TurnEnd ==
    /\ pc = "calls"
    /\ idx > Len(response.tool_calls)
    /\ messages' =
          trim_history(Append(messages,
                              [role |-> "user", content |-> tool_results]),
                       MAX_HISTORY_MESSAGES)
    /\ pc' = "loop"
    /\ UNCHANGED permVars
    /\ UNCHANGED sideVars
    /\ UNCHANGED <<configVars, ctxVars, tool_history, history_ran, turn_count,
                   mode, response, idx, tool_results, final_response, emitted,
                   returned, stop_reason, last_call, chats, run_chats, runs,
                   logic_runs>>

\* the while condition is false: leave the loop
LoopExit ==
    /\ pc = "loop"
    /\ ~LoopCond(turn_count, max_turns)
    /\ stop_reason' = "turn_limit"
    /\ pc' = "exit"
    /\ UNCHANGED permVars
    /\ UNCHANGED sideVars
    /\ UNCHANGED <<configVars, ctxVars, messages, tool_history, history_ran,
                   turn_count, mode, response, idx, tool_results,
                   final_response, emitted, returned, last_call, chats,
                   run_chats, runs, logic_runs>>

\* the statements after the loop: the turn-limit warning of run(), and
\* return final_response
RunReturn ==
    /\ pc = "exit"
    /\ emitted' = IF TurnWarning(mode, turn_count, max_turns)
                  THEN Append(emitted, "turn warning") ELSE emitted
    /\ returned' = final_response
    /\ pc' = "idle"
    /\ UNCHANGED permVars
    /\ UNCHANGED sideVars
    /\ UNCHANGED <<configVars, ctxVars, messages, tool_history, history_ran,
                   turn_count, mode, response, idx, tool_results,
                   final_response, stop_reason, last_call, chats, run_chats,
                   runs, logic_runs>>

\* AgentLoop.reset
Reset ==
    /\ pc = "idle"
    /\ turn_count > 0
    /\ FreshState
    /\ UNCHANGED permVars
    /\ UNCHANGED sideVars
    /\ UNCHANGED <<configVars, ctxVars, pc, mode, response, idx, tool_results,
                   final_response, emitted, returned, stop_reason, last_call,
                   chats, run_chats, runs>>

\* ToolRegistry.execute called directly
Dispatch(c) ==
    /\ pc = "idle"
    /\ Len(audit) < MaxAudit
    /\ LET ex == Execute(c.name, c.input, Ctx) IN
        /\ last_exec' = Trace(c.name, c.input, ex, audit)
        /\ audit' = ex.audit
        /\ files_read' = ex.files_read
    /\ UNCHANGED permVars
    /\ UNCHANGED sideVars
    /\ UNCHANGED <<configVars, messages, tool_history, history_ran, turn_count,
                   pc, mode, response, idx, tool_results, final_response,
                   emitted, returned, stop_reason, last_call, chats, run_chats,
                   runs, logic_runs>>

\* one call of check_permission
CheckPermission(session_id, tool_name, target) ==
    /\ pc = "idle"
    /\ perm_ops < MaxPermOps
    /\ \E answer \in Answers :
        LET d == check_permission(session_id, tool_name, target, answer) IN
            /\ (~d.asked => answer = [allowed |-> FALSE, remember |-> FALSE])
            /\ audit' = d.audit
            /\ session_approvals' = d.approvals
            /\ always_denied' = d.denied
            /\ last_check' =
                  [seq |-> perm_ops + 1, session_id |-> session_id,
                   tool_name |-> tool_name, target |-> target,
                   allowed |-> d.allowed, reason |-> d.reason,
                   asked |-> d.asked, remember |-> d.remember,
                   logged |-> Logged(audit, d.audit)]
            /\ remembered' =
                  IF d.asked /\ answer.remember /\ answer.allowed
                  THEN [remembered EXCEPT !.granted =
                           @ \cup {<<session_id, tool_name, target>>}]
                  ELSE IF d.asked /\ answer.remember
                  THEN [remembered EXCEPT !.refused =
                           @ \cup {<<tool_name, target>>}]
                  ELSE remembered
    /\ perm_ops' = perm_ops + 1
    /\ UNCHANGED <<on_request, always_approved>>
    /\ UNCHANGED sideVars
    /\ UNCHANGED <<configVars, files_read, last_exec, messages, tool_history,
                   history_ran, turn_count, pc, mode, response, idx,
                   tool_results, final_response, emitted, returned,
                   stop_reason, last_call, chats, run_chats, runs, logic_runs>>

\* what the other methods of PermissionManager leave unchanged
PermFrame ==
    /\ perm_ops' = perm_ops + 1
    /\ UNCHANGED <<on_request, last_check>>
    /\ UNCHANGED sideVars
    /\ UNCHANGED <<configVars, ctxVars, messages, tool_history, history_ran,
                   turn_count, pc, mode, response, idx, tool_results,
                   final_response, emitted, returned, stop_reason, last_call,
                   chats, run_chats, runs, logic_runs>>

\* always_allow(tool_name, target)
AlwaysAllow(tool_name, target) ==
    /\ pc = "idle"
    /\ perm_ops < MaxPermOps
    /\ always_approved' = always_approved \cup {Pattern(tool_name, target)}
    /\ UNCHANGED <<session_approvals, always_denied, remembered>>
    /\ PermFrame

\* always_deny(tool_name, target)
AlwaysDeny(tool_name, target) ==
    /\ pc = "idle"
    /\ perm_ops < MaxPermOps
    /\ always_denied' = always_denied \cup {Pattern(tool_name, target)}
    /\ UNCHANGED <<session_approvals, always_approved, remembered>>
    /\ PermFrame

\* approve_tool_for_session(session_id, tool_name)
ApproveToolForSession(session_id, tool_name) ==
    /\ pc = "idle"
    /\ perm_ops < MaxPermOps
    /\ session_approvals' =
          [session_approvals EXCEPT ![session_id] =
              [present |-> TRUE,
               patterns |-> session_approvals[session_id].patterns
                                \cup {Pattern(tool_name, <<"*">>)}]]
    /\ UNCHANGED <<always_approved, always_denied, remembered>>
    /\ PermFrame

\* clear_session(session_id)
ClearSession(session_id) ==
    /\ pc = "idle"
    /\ perm_ops < MaxPermOps
    /\ session_approvals[session_id].present
    /\ session_approvals' =
          [session_approvals EXCEPT ![session_id] =
              [present |-> FALSE, patterns |-> {}]]
    /\ remembered' =
          [remembered EXCEPT !.granted = {g \in @ : g[1] # session_id}]
    /\ UNCHANGED <<always_approved, always_denied>>
    /\ PermFrame

\* what the audit logger's methods and the editing of its files leave
\* unchanged
StoreFrame ==
    /\ UNCHANGED <<configVars, ctxVars, permVars, monitorVars, validation,
                   fileVars>>
    /\ UNCHANGED <<messages, tool_history, history_ran, turn_count, pc, mode,
                   response, idx, tool_results, final_response, emitted,
                   returned, stop_reason, last_call, chats, run_chats, runs,
                   logic_runs>>

\* log() that rewrites the session's file instead of appending to it
Log_Rewrites(c) ==
    /\ now < MaxLogs
    /\ now' = now + 1
    /\ log_files' =
          [log_files EXCEPT ![c.session_id] =
              <<LogLine(now + 1, c)>>]
    /\ UNCHANGED edits
    /\ StoreFrame

\* log(session_id, action, tool_name, parameters, result_summary,
\*     user_approved)
Log(c) ==
    /\ now < MaxLogs
    /\ now' = now + 1
    /\ log_files' =
          [log_files EXCEPT ![c.session_id] =
              Append(@, LogLine(now + 1, c))]
    /\ UNCHANGED edits
    /\ StoreFrame

\* the values an editor of the file gives to a field of a stored line
\* (timestamp 2 is also the time of the second log() call)
FieldValues(field) ==
    IF field = "timestamp" THEN {0, 2}
    ELSE IF field = "session_id" THEN {"s2"}
    ELSE IF field = "action" THEN {"edited"}
    ELSE IF field = "tool_name" THEN {None, "None"}
    ELSE IF field = "result_summary" THEN {Text("edited", 6)}
    ELSE IF field = "parameters"
    THEN {<<<<"password", <<"hunter2">>>>>>}
    ELSE BOOLEAN

\* someone edits one field of line k of a session's log file on disk
AlterEntry(f, k, field, value) ==
    /\ Len(edits) < MaxEdits
    /\ k \in 1..Len(log_files[f])
    /\ value # log_files[f][k][field]
    /\ log_files' = [log_files EXCEPT ![f][k][field] = value]
    /\ edits' = Append(edits, [file |-> f, line |-> k, field |-> field])
    /\ UNCHANGED now
    /\ StoreFrame

\* what the context manager's methods and the writing of its file leave
\* unchanged
MonitorFrame ==
    /\ UNCHANGED <<configVars, ctxVars, permVars, storeVars, validation,
                   fileVars>>
    /\ UNCHANGED <<messages, tool_history, history_ran, turn_count, pc, mode,
                   response, idx, tool_results, final_response, emitted,
                   returned, stop_reason, last_call, chats, run_chats, runs,
                   logic_runs>>

\* check_and_warn(messages)
CheckAndWarn(msgs) ==
    /\ Len(monitor.observed) < MaxChecks
    /\ LET r == check_and_warn(last_warning_level, checkpoint_file, msgs) IN
           /\ last_warning_level' = r.level
           /\ checkpoint_file' = r.file
           /\ monitor' =
                 [monitor EXCEPT
                     !.observed = Append(@, Band(msgs)),
                     !.warnings = IF r.warning = 0 THEN @
                                  ELSE Append(@, r.warning)]
    /\ MonitorFrame

\* load_checkpoint()
LoadCheckpoint ==
    /\ LET r == load_checkpoint(checkpoint_file) IN
           monitor' = [monitor EXCEPT
                          !.load = [called |-> TRUE,
                                    file |-> checkpoint_file.kind,
                                    raises |-> r.raises,
                                    value |-> r.value]]
    /\ UNCHANGED <<last_warning_level, checkpoint_file>>
    /\ MonitorFrame

\* something other than a checkpoint is written at the checkpoint path:
\* text that is not JSON, JSON of another shape (a list, an object lacking
\* a key), an object with the checkpoint's keys and values of other types,
\* bytes that are not UTF-8
MalformedKinds == {"invalid json", "wrong shape", "wrong types", "undecodable"}

WriteCheckpointFile(kind) ==
    /\ checkpoint_file' = [kind |-> kind, data |-> NoData]
    /\ UNCHANGED <<last_warning_level, monitor>>
    /\ MonitorFrame

\* delete_checkpoint()
DeleteCheckpoint ==
    /\ checkpoint_file.kind # "missing"
    /\ checkpoint_file' = MissingFile
    /\ UNCHANGED <<last_warning_level, monitor>>
    /\ MonitorFrame

\* what the validation methods leave unchanged
ValidationFrame ==
    /\ UNCHANGED <<configVars, ctxVars, permVars, storeVars, monitorVars,
                   fileVars>>
    /\ UNCHANGED <<messages, tool_history, history_ran, turn_count, pc, mode,
                   response, idx, tool_results, final_response, emitted,
                   returned, stop_reason, last_call, chats, run_chats, runs,
                   logic_runs>>

\* validate_path(path), called on the security manager directly
ValidatePath ==
    /\ validation.fn = "validate_path"
    /\ validation.result = ""
    /\ validation' =
          [validation EXCEPT !.result = validate_path(validation.arg)]
    /\ ValidationFrame

\* validate_command(command), called on the security manager directly
ValidateCommand ==
    /\ validation.fn = "validate_command"
    /\ validation.result = ""
    /\ validation' =
          [validation EXCEPT
              !.result = validate_command(validation.arg, allow_network)]
    /\ ValidationFrame


\* truncate_output(output, max_size), called on the security manager
\* directly: on the argument first, then on the output it returned
TruncateOutput ==
    /\ validation.fn = "truncate_output"
    /\ Len(validation.result) < MaxTruncations
    /\ LET output == IF validation.result = <<>> THEN validation.arg[1]
                     ELSE validation.result[Len(validation.result)][1]
       IN  validation' =
              [validation EXCEPT
                  !.result =
                      Append(@, truncate_chars(output, validation.arg[2]))]
    /\ ValidationFrame


\* what the file tools, called with a ToolContext directly, leave unchanged
FileFrame ==
    /\ UNCHANGED <<configVars, audit, last_exec, permVars, storeVars,
                   monitorVars, validation>>
    /\ UNCHANGED <<messages, tool_history, history_ran, turn_count, pc, mode,
                   response, idx, tool_results, final_response, emitted,
                   returned, stop_reason, last_call, chats, run_chats, runs,
                   logic_runs>>

FileOp(fn, args, result) ==
    [fn |-> fn, path |-> normpath(Get(args, "file_path")), args |-> args,
     result |-> result]

\* read_file(args, ctx)
ReadFile(args) ==
    /\ file_log.count < MaxFileOps
    /\ LET r == read_file_in(disk, args, files_read) IN
           /\ files_read' = r.files_read
           /\ file_log' =
                 [count |-> file_log.count + 1,
                  last |-> FileOp("read_file", args, r.result),
                  read |-> IF r.result = "file lines"
                           THEN file_log.read
                                    \cup {normpath(Get(args, "file_path"))}
                           ELSE file_log.read]
    /\ UNCHANGED disk
    /\ FileFrame

\* write_file(args, ctx)
WriteFile(args) ==
    /\ file_log.count < MaxFileOps
    /\ LET r == write_file(disk, args, files_read) IN
           /\ disk' = r.files
           /\ file_log' =
                 [file_log EXCEPT !.count = @ + 1,
                                  !.last = FileOp("write_file", args, r.result)]
    /\ UNCHANGED files_read
    /\ FileFrame

\* edit_file(args, ctx)
EditFile(args) ==
    /\ file_log.count < MaxFileOps
    /\ LET r == edit_file(disk, args, files_read) IN
           /\ disk' = r.files
           /\ file_log' =
                 [file_log EXCEPT !.count = @ + 1,
                                  !.last = FileOp("edit_file", args, r.result)]
    /\ UNCHANGED files_read
    /\ FileFrame


\* someone removes line k of a session's log file, writes it twice, or
\* exchanges it with the line after it; the lines themselves stay as written
Without(lines, k) ==
    SubSeq(lines, 1, k - 1) \o SubSeq(lines, k + 1, Len(lines))

Twice(lines, k) == SubSeq(lines, 1, k) \o SubSeq(lines, k, Len(lines))

Exchanged(lines, k) ==
    [i \in 1..Len(lines) |->
        IF i = k THEN lines[k + 1] ELSE IF i = k + 1 THEN lines[k]
        ELSE lines[i]]

RearrangeFile(f, k, how, lines) ==
    /\ Len(edits) < MaxEdits
    /\ k \in 1..Len(log_files[f])
    /\ log_files' = [log_files EXCEPT ![f] = lines]
    /\ edits' = Append(edits, [file |-> f, line |-> k, field |-> how])
    /\ UNCHANGED now
    /\ StoreFrame

RemoveEntry(f, k) ==
    RearrangeFile(f, k, "<removed>", Without(log_files[f], k))

DuplicateEntry(f, k) ==
    RearrangeFile(f, k, "<twice>", Twice(log_files[f], k))

ExchangeEntries(f, k) ==
    /\ k < Len(log_files[f])
    /\ RearrangeFile(f, k, "<exchanged>", Exchanged(log_files[f], k))

---------------------------------------------------------------------------
(* Specifications *)

\* The agent loop over a fully configured context, the model free to reply
\* anything built from LoopCalls.
Init ==
    /\ InitWith(1..MaxTurns, 1..MaxDoom, BOOLEAN, {TRUE}, {TRUE}, {FALSE})
    /\ PermissionManagerInit({FALSE})
    /\ ComponentsInit

LoopStep ==
    \/ ChatFails
    \/ TurnBegin(Replies(LoopCalls, chats + 1))
    \/ ProcessCall(BOOLEAN)
    \/ TurnEnd
    \/ LoopExit
    \/ RunReturn

Next ==
    \/ \E m \in {"run", "stream"} : RunStart(m, MaxChats)
    \/ LoopStep
    \/ Reset

Spec == Init /\ [][Next]_vars

\* The dispatcher alone, under every context configuration.
InitDispatch ==
    /\ InitWith({1}, {1}, {FALSE}, BOOLEAN, BOOLEAN, BOOLEAN)
    /\ PermissionManagerInit({FALSE})
    /\ ComponentsInit

NextDispatch == \E c \in DispatchCalls : Dispatch(c)

SpecDispatch == InitDispatch /\ [][NextDispatch]_vars

\* The agent loop with a model that proposes the same single call on every
\* turn, a call that executes, and a callback that approves it.
RepeatCalls == {ReadOk, BashOk}

RepeatReplies(n) ==
    {[text |-> EmptyText, tool_calls |-> WithIds(<<c>>, n)] :
        c \in {d \in RepeatCalls :
                  \A i \in 1..Len(tool_history) : tool_history[i] = Key(d)}}

InitRepeat ==
    /\ InitWith(1..MaxTurnsRepeat, 1..MaxDoomRepeat, BOOLEAN, {TRUE}, {TRUE},
                {FALSE})
    /\ PermissionManagerInit({FALSE})
    /\ ComponentsInit

NextRepeat ==
    \/ \E m \in {"run", "stream"} : RunStart(m, MaxTurnsRepeat)
    \/ TurnBegin(RepeatReplies(chats + 1))
    \/ ProcessCall({TRUE})
    \/ TurnEnd
    \/ LoopExit
    \/ RunReturn

SpecRepeat == InitRepeat /\ [][NextRepeat]_vars

\* The agent loop over long conversations: the model replies with text alone
\* or with one call that executes, the doom threshold out of reach.
TrimReplies(n) ==
    {[text |-> Text("model text", 20), tool_calls |-> <<>>],
     [text |-> EmptyText, tool_calls |-> WithIds(<<ReadOk>>, n)]}

InitTrim ==
    /\ InitWith({MaxTurnsRepeat}, {MaxDoomRepeat}, {FALSE}, {TRUE}, {TRUE},
                {FALSE})
    /\ PermissionManagerInit({FALSE})
    /\ ComponentsInit

NextTrim ==
    \/ \E m \in {"run", "stream"} : RunStart(m, MaxTurnsRepeat)
    \/ TurnBegin(TrimReplies(chats + 1))
    \/ ProcessCall({TRUE})
    \/ TurnEnd
    \/ LoopExit
    \/ RunReturn

SpecTrim == InitTrim /\ [][NextTrim]_vars

\* The permission manager alone, with and without a callback, its audit
\* logger configured.
InitPerm ==
    /\ InitWith({1}, {1}, {FALSE}, {TRUE}, {TRUE}, {FALSE})
    /\ PermissionManagerInit(BOOLEAN)
    /\ ComponentsInit

\* the (tool, target) pairs checked (a tool of each static rule and one that
\* has no rule), the pairs always_allow and always_deny are called with, and
\* the tools approve_tool_for_session is called with
PermRequests ==
    ({"read_file", "write_file"} \X Targets)
        \cup ({"bash", "other_tool"} \X {<<"a.txt">>})

AllowCalls == {"write_file"} \X Targets

DenyCalls == {"read_file", "write_file"} \X Targets

SessionTools == {"write_file", "bash"}

NextPerm ==
    \/ \E s \in Sessions : \E r \in PermRequests :
           CheckPermission(s, r[1], r[2])
    \/ \E r \in AllowCalls : AlwaysAllow(r[1], r[2])
    \/ \E r \in DenyCalls : AlwaysDeny(r[1], r[2])
    \/ \E s \in Sessions : \E t \in SessionTools :
           ApproveToolForSession(s, t)
    \/ \E s \in Sessions : ClearSession(s)

SpecPerm == InitPerm /\ [][NextPerm]_vars

\* The audit logger alone: log() calls of two sessions, and edits of the
\* stored lines.
FlatSecret ==
    <<<<"file_path", <<"a.txt">>>>, <<"password", <<"hunter2">>>>>>

NestedSecret ==
    <<<<"config",
        Dict(<<<<"api_key", <<"hunter2">>>>,
               <<"inner", Dict(<<<<"auth_token", <<"hunter2">>>>>>)>>>>)>>>>

ListedSecret ==
    <<<<"items", List(<<Dict(<<<<"password", <<"hunter2">>>>>>)>>)>>>>

LongList == <<<<"items", List([i \in 1..(LIST_LIMIT + 1) |-> <<"x">>])>>>>

LogCall(session_id, action, tool_name, parameters, summary, approved) ==
    [session_id |-> session_id, action |-> action, tool_name |-> tool_name,
     parameters |-> parameters, summary |-> summary, approved |-> approved]

LogCalls ==
    {LogCall("s1", "session_start", None, <<>>, EmptyText, TRUE),
     LogCall("s1", "tool_call", "bash", FlatSecret, Text("Success", 7), TRUE),
     LogCall("s10", "tool_call", "read_file", NestedSecret,
             Text("file text", 600), TRUE),
     LogCall("s1", "permission_decision", "write_file", ListedSecret,
             Text("Denied", 6), FALSE),
     LogCall("s10", "tool_error", "bash", LongList, Text("Error", 5), TRUE)}

InitAudit ==
    /\ InitWith({1}, {1}, {FALSE}, {TRUE}, {TRUE}, {FALSE})
    /\ PermissionManagerInit({FALSE})
    /\ ComponentsInit

NextAudit ==
    \/ \E c \in LogCalls : Log(c)
    \/ \E f \in LogSessions : \E k \in 1..MaxLogs :
       \E field \in EntryFields :
       \E value \in FieldValues(field) : AlterEntry(f, k, field, value)

SpecAudit == InitAudit /\ [][NextAudit]_vars

\* The context manager alone: conversations of 0, 159999, 160000, 179999,
\* 180000 and 190000 estimated tokens, fed in any order.
Conversations ==
    {<<>>,
     <<Message("user", 639999)>>,
     <<Message("user", 600), Message("user", 1), Message("user", 2),
       Message("user", 3), Message("assistant", 639394)>>,
     <<Message("user", 719999)>>,
     <<Message("user", 720000)>>,
     <<Message("user", 760000), Message("assistant", 3)>>}

InitContext ==
    /\ InitWith({1}, {1}, {FALSE}, {TRUE}, {TRUE}, {FALSE})
    /\ PermissionManagerInit({FALSE})
    /\ ComponentsInit

NextContext ==
    \/ \E msgs \in Conversations : CheckAndWarn(msgs)
    \/ LoadCheckpoint
    \/ \E kind \in MalformedKinds : WriteCheckpointFile(kind)
    \/ DeleteCheckpoint

SpecContext == InitContext /\ [][NextContext]_vars

\* The security manager alone, with network access allowed or not: every
\* path of at most MaxPathLen segments, relative or absolute, and every
\* command of at most MaxCmdLen tokens.
Segments ==
    {"..", "ws", "a.txt", ".aws", ".envrc", "id_rsa", "link", "out", "back"}

SeqsUpTo(S, n) == UNION {[1..k -> S] : k \in 0..n}

Paths ==
    SeqsUpTo(Segments, MaxPathLen)
        \cup {<<"/">> \o p : p \in SeqsUpTo(Segments, MaxPathLen)}

CommandTokens ==
    {"git", "status", "rm", "-rf", "/", "curl", "|", "sh", "sudo"}

Commands == SeqsUpTo(CommandTokens, MaxCmdLen) \ {<<>>}

\* the call to be made: the method and its argument
InitValidate ==
    /\ InitWith({1}, {1}, {FALSE}, {TRUE}, {TRUE}, BOOLEAN)
    /\ PermissionManagerInit({FALSE})
    /\ AuditLoggerInit
    /\ ContextManagerInit
    /\ FileSystemInit
    /\ validation \in
          {[fn |-> "validate_path", arg |-> p, result |-> ""] : p \in Paths}
            \cup {[fn |-> "validate_command", arg |-> c, result |-> ""] :
                      c \in Commands}

NextValidate == ValidatePath \/ ValidateCommand

SpecValidate == InitValidate /\ [][NextValidate]_vars


\* truncate_output alone: every output of at most MaxTextLen characters and
\* every max_size up to MaxSize (0 stands for "use the configured size"),
\* truncated and truncated again
TextChars == {"a", "b"}

Outputs == SeqsUpTo(TextChars, MaxTextLen)

InitTruncate ==
    /\ InitWith({1}, {1}, {FALSE}, {TRUE}, {TRUE}, {FALSE})
    /\ PermissionManagerInit({FALSE})
    /\ AuditLoggerInit
    /\ ContextManagerInit
    /\ FileSystemInit
    /\ validation \in
          {[fn |-> "truncate_output", arg |-> <<o, m>>, result |-> <<>>] :
              o \in Outputs, m \in 0..MaxSize}

NextTruncate == TruncateOutput

SpecTruncate == InitTruncate /\ [][NextTruncate]_vars


\* The file tools alone on one ToolContext: the file a.txt named in two
\* ways, a path that holds a file or nothing, and a directory; up to
\* MaxFileOps calls in any order.
FilePathArgs ==
    {<<"a.txt">>, <<"sub", "..", "a.txt">>, <<"new.txt">>, <<"sub">>}

ReadArgs == {<<(<<"file_path", p>>)>> : p \in FilePathArgs}

WriteArgs ==
    {<<(<<"file_path", p>>), (<<"content", c>>)>> :
        p \in FilePathArgs, c \in {<<>>, <<"y">>}}

EditArgs ==
    {<<(<<"file_path", p>>), (<<"old_string", old>>),
       (<<"new_string", <<"y">> >>), (<<"replace_all", all>>)>> :
        p \in FilePathArgs, old \in {<<"x">>, <<"y">>}, all \in BOOLEAN}

InitFiles ==
    /\ InitWith({1}, {1}, {FALSE}, {TRUE}, {TRUE}, {FALSE})
    /\ PermissionManagerInit({FALSE})
    /\ AuditLoggerInit
    /\ ContextManagerInit
    /\ validation = NoValidation
    /\ disk \in {Tree(a, n) : a \in {<<"x">>, <<"x", "x">>},
                              n \in {Missing, File(<<"y">>)}}
    /\ file_log = NoFileOps

NextFiles ==
    \/ \E args \in ReadArgs : ReadFile(args)
    \/ \E args \in WriteArgs : WriteFile(args)
    \/ \E args \in EditArgs : EditFile(args)

SpecFiles == InitFiles /\ [][NextFiles]_vars


\* The agent loop with a model that answers every turn with one call, the
\* same as before or the other one, a doom threshold within the reach of the
\* tool history or beyond it.
HistoryReplies(n) ==
    {[text |-> EmptyText, tool_calls |-> WithIds(<<c>>, n)] :
        c \in RepeatCalls}

InitHistory ==
    /\ InitWith({MaxTurnsRepeat}, {TOOL_HISTORY_MAXLEN, MaxDoomRepeat},
                {FALSE}, {TRUE}, {TRUE}, {FALSE})
    /\ PermissionManagerInit({FALSE})
    /\ ComponentsInit

NextHistory ==
    \/ RunStart("run", MaxTurnsRepeat)
    \/ TurnBegin(HistoryReplies(chats + 1))
    \/ ProcessCall({TRUE})
    \/ TurnEnd
    \/ LoopExit
    \/ RunReturn

SpecHistory == InitHistory /\ [][NextHistory]_vars


\* The audit logger and a file system in which whole lines of its files are
\* removed, repeated and exchanged, no line being edited.
NextLines ==
    \/ \E c \in LogCalls : Log(c)
    \/ \E f \in LogSessions : \E k \in 1..(MaxLogs + MaxEdits) :
          \/ RemoveEntry(f, k)
          \/ DuplicateEntry(f, k)
          \/ ExchangeEntries(f, k)

SpecLines == InitAudit /\ [][NextLines]_vars

---------------------------------------------------------------------------
(* Claims *)

Has(events, e) == \E i \in 1..Len(events) : events[i] = e

Before(events, a, b) ==
    \E i \in 1..Len(events) : \E j \in 1..Len(events) :
        i < j /\ events[i] = a /\ events[j] = b

\* some validation of the security gate refuses an argument of the call
Rejected(args, network) ==
    \/ HasKey(args, "file_path") /\ validate_path(Get(args, "file_path")) # "OK"
    \/ HasKey(args, "path") /\ validate_path(Get(args, "path")) # "OK"
    \/ HasKey(args, "command")
       /\ validate_command(Get(args, "command"), network) # "OK"

\* C1: whenever execute runs a tool's logic, check_permission was consulted
\* for that invocation, after the security validation and before the logic.
C1_PermissionBeforeLogic ==
    Has(last_exec.events, "logic")
        => Before(last_exec.events, "check_permission", "logic")

\* C2: the loop never runs the logic of a tool that requires approval unless
\* an approval decision granted that call.
C2_ApprovalBeforeExecution ==
    (last_call.ran /\ RequiresApproval(last_call.name))
        => last_call.approval = "granted"

\* C3: with a security gate configured, a call one of whose file_path, path
\* or command arguments is refused runs no tool logic, consults no permission
\* policy, and (for a registered tool) returns the security error.
C3_SecurityShortCircuit ==
    (last_exec.outcome # "none" /\ has_security
     /\ Rejected(last_exec.args, allow_network))
        => /\ ~Has(last_exec.events, "logic")
           /\ ~Has(last_exec.events, "check_permission")
           /\ ToolKnown(last_exec.name) =>
                 /\ last_exec.outcome = "security"
                 /\ last_exec.result.kind = "Security Error"
                 /\ last_exec.logged = <<>>

C3_Witness ==
    /\ has_security
    /\ last_exec.outcome = "security"
    /\ HasKey(last_exec.args, "path")
    /\ validate_path(Get(last_exec.args, "file_path")) = "OK"

\* C4: with an audit logger configured, every call of execute appends at
\* least one entry of its session that names the tool and carries the
\* sanitized parameters.
C4_EveryCallAudited ==
    (has_audit /\ last_exec.outcome # "none")
        => \E i \in 1..Len(last_exec.logged) :
              /\ last_exec.logged[i].session_id = SessionId
              /\ last_exec.logged[i].tool_name = last_exec.name
              /\ last_exec.logged[i].parameters
                    = _sanitize_params(last_exec.args)

\* C5: execute never raises to its caller: an unknown tool yields an error
\* text, an exception in tool logic yields an error text and (with an audit
\* logger) a tool_error entry; the loop then goes on with the next call of the
\* reply, and no run ends by an exception.
C5_DispatchState ==
    /\ ~last_exec.raises
    /\ stop_reason # "exception"
    /\ last_exec.outcome = "unknown"
          => last_exec.result.kind = "Error: Unknown tool"
    /\ (Has(last_exec.events, "logic") /\ last_exec.outcome # "ok")
          => /\ last_exec.outcome = "tool_error"
             /\ last_exec.result.kind = "Error executing"
             /\ has_audit =>
                   \E i \in 1..Len(last_exec.logged) :
                       /\ last_exec.logged[i].action = "tool_error"
                       /\ last_exec.logged[i].tool_name = last_exec.name

C5_LoopGoesOn ==
    (pc = "calls" /\ idx <= Len(response.tool_calls)
                  /\ last_call'.dispatched)
        => /\ pc' = "calls"
           /\ idx' = idx + 1
           /\ Len(tool_results') = Len(tool_results) + 1
           /\ tool_results'[Len(tool_results')].id = response.tool_calls[idx].id

C6_DoomOnReply ==
    (chats' = chats + 1 /\ stop_reason' # "backend_error"
     /\ \E i \in 1..Len(response'.tool_calls) :
            Count(tool_history, Key(response'.tool_calls[i])) >= doom_threshold)
        => /\ pc' = "exit"
           /\ stop_reason' = "doom"
           /\ Has(emitted', "doom warning")
           /\ messages' = messages

C6_NothingAfterExit ==
    pc = "exit"
        => /\ pc' = "idle"
           /\ chats' = chats
           /\ logic_runs' = logic_runs
           /\ last_exec' = last_exec
           /\ tool_history' = tool_history
           /\ audit' = audit

C6_DoomStopsLoop == [][C6_DoomOnReply]_vars /\ [][C6_NothingAfterExit]_vars

C6_Witness ==
    /\ stop_reason = "doom"
    /\ pc = "idle"
    /\ Len(response.tool_calls) = 2
    /\ Count(tool_history, Key(response.tool_calls[1])) = 0
    /\ Count(tool_history, Key(response.tool_calls[2])) >= doom_threshold

\* C7: with a model that proposes the same executing call on every turn, the
\* call is executed exactly doom_threshold times: never more, and the doom
\* stop comes when it has been executed doom_threshold times; and a doom stop
\* comes only for a key that occurs doom_threshold times in the history.
C7_RepeatedCallStopped ==
    /\ logic_runs <= doom_threshold
    /\ stop_reason = "doom" =>
          /\ logic_runs = doom_threshold
          /\ \E i \in 1..Len(response.tool_calls) :
                 Count(tool_history, Key(response.tool_calls[i]))
                     >= doom_threshold

\* C8: every entry of the tool history is a call whose tool logic was run.
C8_HistoryOnlyExecuted ==
    \A i \in 1..Len(history_ran) : history_ran[i]

\* C9: turn_count never exceeds max_turns and a run makes at most max_turns
\* model calls; and every run returns: while a run is under way a step of it
\* can be taken, and each step of it lowers a rank that is positive until the
\* run has returned.
C9_Bounded == turn_count <= max_turns /\ run_chats <= max_turns

C9_Rank ==
    IF pc = "idle" THEN 0
    ELSE (max_turns - turn_count) * (MaxCalls + 4)
         + (IF pc = "exit" THEN 1
            ELSE IF pc = "loop" THEN 2
            ELSE Len(response.tool_calls) - idx + 4)

\* the guard of some step of the run holds (the model call returns or raises at
\* the loop head; the for loop has a call left or ends; the exit returns)
C9_CanStep ==
    \/ pc = "loop"
    \/ pc = "calls" /\ idx \in 1..(Len(response.tool_calls) + 1)
    \/ pc = "exit"

C9_Progress == (pc # "idle") => (C9_Rank > 0 /\ C9_CanStep)

C9_RankFalls == LoopStep => C9_Rank' < C9_Rank

C9_RunTerminates ==
    [](C9_Bounded /\ C9_Progress) /\ [][C9_RankFalls]_vars

C9_Witness ==
    /\ pc = "idle"
    /\ stop_reason = "turn_limit"
    /\ max_turns = MaxTurns
    /\ run_chats = max_turns
    /\ turn_count = max_turns

\* C10: when a run has returned, the turn-limit warning was emitted if and
\* only if the loop was left because the turn count had reached max_turns.
C10_TurnWarningExact ==
    (pc = "idle" /\ stop_reason # "none")
        => (Has(emitted, "turn warning") <=> stop_reason = "turn_limit")

\* C11: when run() has returned after a doom stop or a turn-limit stop, the
\* string it returned carries the corresponding warning.
C11_WarningInOutput ==
    (pc = "idle" /\ mode = "run")
        => /\ stop_reason = "doom" => Has(returned.notes, "doom warning")
           /\ stop_reason = "turn_limit"
                 => Has(returned.notes, "turn warning")

\* C12: the step in which the model call raises returns the error string,
\* runs no tool, and leaves the messages and the tool history as they were;
\* and once a run has ended that way no model call and no tool run follows
\* until another run is started.
C12_FailureStep ==
    (pc = "loop" /\ chats' = chats + 1 /\ stop_reason' = "backend_error")
        => /\ pc' = "idle"
           /\ returned'.kind = "Error calling LLM"
           /\ messages' = messages
           /\ tool_history' = tool_history
           /\ logic_runs' = logic_runs
           /\ last_exec' = last_exec
           /\ audit' = audit

C12_NothingAfterFailure ==
    stop_reason = "backend_error"
        => (chats' = chats /\ last_exec' = last_exec /\ audit' = audit)

C12_BackendFailureEndsRun ==
    [][C12_FailureStep]_vars /\ [][C12_NothingAfterFailure]_vars

C12_Witness ==
    /\ pc = "idle"
    /\ mode = "run"
    /\ stop_reason = "backend_error"
    /\ returned.kind = "Error calling LLM"
    /\ run_chats = 2
    /\ Len(tool_history) > 0

\* C13: the step in which the approval callback answers false makes no call
\* of execute (no dispatch, no audit entry, no history entry), appends to the
\* turn's results a denial carrying the id of that call, and leaves the loop
\* at the next call of the reply.
C13_DenialStep ==
    (pc = "calls" /\ idx <= Len(response.tool_calls)
                  /\ last_call'.approval = "denied")
        => /\ last_exec' = last_exec
           /\ audit' = audit
           /\ logic_runs' = logic_runs
           /\ tool_history' = tool_history
           /\ pc' = "calls"
           /\ idx' = idx + 1
           /\ Len(tool_results') = Len(tool_results) + 1
           /\ SubSeq(tool_results', 1, Len(tool_results)) = tool_results
           /\ LET res == tool_results'[Len(tool_results')] IN
                 /\ res.type = "tool_result"
                 /\ res.id = response.tool_calls[idx].id
                 /\ res.body.kind = "User denied permission"

C13_DenialSkipsCall == [][C13_DenialStep]_vars

C13_Witness ==
    /\ pc = "calls"
    /\ Len(response.tool_calls) = 2
    /\ idx = 3
    /\ tool_results[1].body.kind = "User denied permission"
    /\ tool_results[1].id = response.tool_calls[1].id
    /\ last_call.dispatched
    /\ last_call.ran

\* C14: the calls of a reply are dispatched one at a time in the order of the
\* reply; while the for loop runs, the results so far are those of the calls
\* so far, in order and by id; and the tool-result message appended at the end
\* of the turn holds exactly one result per call of the reply, in that order,
\* each with the id of its call.
C14_ResultsSoFar ==
    pc = "calls"
        => /\ idx \in 1..(Len(response.tool_calls) + 1)
           /\ Len(tool_results) = idx - 1
           /\ \A i \in 1..Len(tool_results) :
                  /\ tool_results[i].type = "tool_result"
                  /\ tool_results[i].id = response.tool_calls[i].id

C14_DispatchInOrder ==
    (pc = "calls" /\ idx <= Len(response.tool_calls)
                  /\ last_call'.dispatched)
        => /\ last_exec'.name = response.tool_calls[idx].name
           /\ last_exec'.args = response.tool_calls[idx].input
           /\ last_call'.name = response.tool_calls[idx].name

C14_ResultMessage ==
    (pc = "calls" /\ pc' = "loop")
        => LET msg == messages'[Len(messages')] IN
              /\ msg.role = "user"
              /\ Len(msg.content) = Len(response.tool_calls)
              /\ \A i \in 1..Len(msg.content) :
                     /\ msg.content[i].type = "tool_result"
                     /\ msg.content[i].id = response.tool_calls[i].id

C14_SequentialResults ==
    /\ []C14_ResultsSoFar
    /\ [][C14_DispatchInOrder]_vars
    /\ [][C14_ResultMessage]_vars

C14_Witness ==
    /\ pc = "loop"
    /\ run_chats > 0
    /\ Len(response.tool_calls) = 2
    /\ response.tool_calls[1].name # response.tool_calls[2].name
    /\ Len(messages[Len(messages)].content) = 2
    /\ messages[Len(messages)].content[2].id = response.tool_calls[2].id
    /\ messages[Len(messages)].content[1].body # messages[Len(messages)].content[2].body

\* the synthetic message trim_history puts first
IsMarker(m) ==
    /\ m.role = "user"
    /\ Len(m.content) = 1
    /\ m.content[1].type = "trimmed"

\* at most 21 entries, a marker nowhere but first, and first when there are 21
TrimmedShape(msgs) ==
    /\ Len(msgs) <= MAX_HISTORY_MESSAGES + 1
    /\ \A i \in 2..Len(msgs) : ~IsMarker(msgs[i])
    /\ Len(msgs) = MAX_HISTORY_MESSAGES + 1 => IsMarker(msgs[1])

\* C15 (as stated): after every completed turn, whether its reply held tool
\* calls (the loop is back at its head) or none (the loop is left, the run
\* completed), the message history has at most 21 entries, at most one marker,
\* placed first.
C15_AfterEveryTurn ==
    (run_chats > 0 /\ (pc = "loop" \/ (pc = "exit" /\ stop_reason = "completed")))
        => TrimmedShape(messages)

\* C15 (amended): at the end of every turn whose tool calls were processed,
\* the history has at most 21 entries, at most one marker, placed first,
\* followed by the most recent messages (20 of them once anything was dropped)
\* in their original order, the tool-result message of the turn being the last.
C15_TurnEndStep ==
    (pc = "calls" /\ pc' = "loop")
        => LET full == Append(messages, messages'[Len(messages')])
               k == IF Len(full) <= MAX_HISTORY_MESSAGES THEN Len(full)
                    ELSE MAX_HISTORY_MESSAGES
           IN  /\ TrimmedShape(messages')
               /\ full[Len(full)].content = tool_results
               /\ Len(messages') >= k
               /\ SubSeq(messages', Len(messages') - k + 1, Len(messages'))
                     = SubSeq(full, Len(full) - k + 1, Len(full))
               /\ Len(messages') = k + (IF Len(full) > k THEN 1 ELSE 0)
               /\ Len(full) > k =>
                     /\ IsMarker(messages'[1])
                     /\ messages'[1].content[1].body.len = Len(full) - k

C15_TrimAtTurnEnd == [][C15_TurnEndStep]_vars

C15_Witness ==
    /\ pc = "loop"
    /\ Len(messages) = MAX_HISTORY_MESSAGES + 1
    /\ IsMarker(messages[1])
    /\ messages[1].content[1].body.len = 3
    /\ messages[Len(messages)].content = tool_results

\* the step is a call of check_permission (recorded in last_check')
IsCheck == last_check'.seq = perm_ops + 1

\* C16: a check whose pattern tool:target is in the always-deny set is denied
\* without the callback, whatever the static rule of the tool; any other
\* check of a tool whose static rule is ALLOW is allowed without the callback,
\* in every session and for every target.
C16_CheckStep ==
    LET c == last_check'
        p == Pattern(c.tool_name, c.target)
    IN  IsCheck =>
          /\ p \in always_denied => (~c.allowed /\ ~c.asked)
          /\ (p \notin always_denied /\ Rule(c.tool_name) = "ALLOW")
                => (c.allowed /\ ~c.asked)

C16_DenySetThenAllowRule == [][C16_CheckStep]_vars

C16_Witness ==
    /\ last_check.tool_name = "read_file"
    /\ last_check.session_id = "s2"
    /\ ~last_check.allowed
    /\ Pattern("read_file", last_check.target) \in always_denied
    /\ on_request

\* C17: with no callback configured, a check of a tool whose rule is ASK or
\* ASK_ONCE or that has no rule, whose pattern is not always allowed and for
\* which the session remembers no approval, is denied.
C17_CheckStep ==
    LET c == last_check'
        p == Pattern(c.tool_name, c.target)
        mine == session_approvals[c.session_id].patterns
    IN  (IsCheck /\ ~on_request
         /\ Rule(c.tool_name) \in {"ASK", "ASK_ONCE"}
         /\ p \notin always_approved
         /\ p \notin mine
         /\ Pattern(c.tool_name, <<"*">>) \notin mine)
            => (~c.allowed /\ ~c.asked)

C17_NoCallbackDenies == [][C17_CheckStep]_vars

C17_Witness ==
    /\ ~on_request
    /\ last_check.tool_name = "other_tool"
    /\ ~last_check.allowed
    /\ last_check.reason = "No permission handler configured"
    /\ always_approved # {}

\* C18 (as stated): once the callback has answered allowed and remember for
\* tool:target of an ASK_ONCE tool in session S, every later check of it in S
\* is allowed without the callback, and every check of it in another
\* session invokes the callback.
C18_AsStatedStep ==
    LET c == last_check' IN
        (IsCheck /\ Rule(c.tool_name) = "ASK_ONCE")
          => /\ <<c.session_id, c.tool_name, c.target>> \in remembered.granted
                   => (c.allowed /\ ~c.asked)
             /\ (\E s \in Sessions \ {c.session_id} :
                      <<s, c.tool_name, c.target>> \in remembered.granted)
                   => c.asked

C18_EveryLaterCheck == [][C18_AsStatedStep]_vars

\* C18 (amended): the remembered approval decides the later checks of
\* tool:target in S for as long as the pattern is not in the always-deny set
\* (S not cleared since); and it decides nothing in another session: there,
\* with no approval of that session's own and the pattern in neither the
\* always-deny nor the always-allow set, the callback is invoked.
C18_AmendedStep ==
    LET c == last_check'
        p == Pattern(c.tool_name, c.target)
        mine == session_approvals[c.session_id].patterns
    IN  (IsCheck /\ Rule(c.tool_name) = "ASK_ONCE" /\ p \notin always_denied)
          => /\ <<c.session_id, c.tool_name, c.target>> \in remembered.granted
                   => (c.allowed /\ ~c.asked)
             /\ ((\E s \in Sessions \ {c.session_id} :
                       <<s, c.tool_name, c.target>> \in remembered.granted)
                  /\ p \notin always_approved
                  /\ p \notin mine
                  /\ Pattern(c.tool_name, <<"*">>) \notin mine)
                   => c.asked

C18_SessionMemory == [][C18_AmendedStep]_vars

C18_Witness ==
    /\ perm_ops = 3
    /\ last_check.session_id = "s2"
    /\ last_check.tool_name = "write_file"
    /\ last_check.asked
    /\ <<"s1", "write_file", last_check.target>> \in remembered.granted
    /\ Pattern("write_file", last_check.target)
           \in session_approvals["s1"].patterns
    /\ Len(audit) = 2

\* C19: once the callback has answered denied and remember for tool:target,
\* the pattern is in the always-deny set, and every later check of it, in any
\* session, is denied without the callback.
C19_InDenySet ==
    \A r \in remembered.refused : Pattern(r[1], r[2]) \in always_denied

C19_CheckStep ==
    LET c == last_check' IN
        (IsCheck /\ <<c.tool_name, c.target>> \in remembered.refused)
            => (~c.allowed /\ ~c.asked)

C19_RememberedDenial == []C19_InDenySet /\ [][C19_CheckStep]_vars

C19_Witness ==
    /\ <<last_check.tool_name, last_check.target>> \in remembered.refused
    /\ last_check.session_id = "s2"
    /\ ~last_check.allowed
    /\ ~last_check.asked
    /\ last_check.reason = "Always denied"
    /\ \E i \in 1..Len(audit) :
           audit[i].session_id = "s1" /\ ~audit[i].user_approved

\* C20: every denial by check_permission appends, for a manager with an audit
\* logger, a permission_decision entry for that session and tool with
\* user_approved false.
C20_DenialsLogged ==
    (has_audit /\ last_check.seq > 0 /\ ~last_check.allowed)
        => \E i \in 1..Len(last_check.logged) :
              /\ last_check.logged[i].action = "permission_decision"
              /\ last_check.logged[i].session_id = last_check.session_id
              /\ last_check.logged[i].tool_name = last_check.tool_name
              /\ ~last_check.logged[i].user_approved

RECURSIVE KeepsSensitive(_)
\* some map inside the value, at any depth, has a sensitive key whose value
\* is not the redaction marker
KeepsSensitive(v) ==
    IF IsDict(v) THEN
        \E i \in 1..Len(v[2]) :
            \/ v[2][i][1] \in SensitiveKeyNames
                  /\ v[2][i][2] # <<"[REDACTED]">>
            \/ v[2][i][1] \notin SensitiveKeyNames
                  /\ KeepsSensitive(v[2][i][2])
    ELSE IF IsList(v) THEN \E i \in 1..Len(v[2]) : KeepsSensitive(v[2][i])
    ELSE FALSE

\* the field of line k of file f is as log() wrote it
Unedited(f, k, field) ==
    \A i \in 1..Len(edits) :
        ~(edits[i].file = f /\ edits[i].line = k /\ edits[i].field = field)

\* C21: in every stored audit entry, as log() wrote it, every map inside the
\* parameters, at any depth and also as an element of a list, has the
\* redaction marker under each key with a sensitive name.
C21_SensitiveValuesRedacted ==
    \A f \in LogSessions : \A k \in 1..Len(log_files[f]) :
        Unedited(f, k, "parameters")
            => ~KeepsSensitive(Dict(log_files[f][k].parameters))

HashedFields ==
    {"timestamp", "session_id", "action", "tool_name", "result_summary"}

\* C22: on an untouched log verify_integrity returns valid with no issue for
\* every session; after one alteration of one hash-input field of one stored
\* entry it returns invalid with exactly one issue, which is that entry.
C22_UntouchedValid ==
    edits = <<>>
        => \A s \in LogSessions :
              verify_integrity(log_files, s) =
                  [valid |-> TRUE, issues |-> <<>>]

C22_OneAlterationOneIssue ==
    (Len(edits) = 1 /\ edits[1].field \in HashedFields)
        => LET v == verify_integrity(log_files, edits[1].file)
           IN  /\ ~v.valid
               /\ Len(v.issues) = 1
               /\ get_session_log(log_files, edits[1].file)[v.issues[1] + 1]
                      = log_files[edits[1].file][edits[1].line]

C22_TamperEvident == C22_UntouchedValid /\ C22_OneAlterationOneIssue

\* C23: altering the parameters or the user_approved field of a stored
\* entry, in a log tampered with or not, changes the result of
\* verify_integrity for no session.
C23_AlterationStep ==
    (Len(edits') = Len(edits) + 1
       /\ edits'[Len(edits')].field \in {"parameters", "user_approved"})
        => \A s \in LogSessions :
              verify_integrity(log_files', s) = verify_integrity(log_files, s)

C23_ParametersNotCovered == [][C23_AlterationStep]_vars

C23_Witness ==
    /\ Len(edits) = 2
    /\ edits[1].field = "result_summary"
    /\ edits[2].field = "parameters"
    /\ edits[1].file = "s10"
    /\ edits[2].file = "s10"
    /\ edits[1].line = edits[2].line
    /\ Len(log_files["s10"]) = 2
    /\ verify_integrity(log_files, "s10") = [valid |-> FALSE, issues |-> <<1>>]

\* C24: each log() call appends exactly one entry to the file of its session
\* and leaves every line stored before, in every file, as it was.
C24_LogStep ==
    now' = now + 1
        => \E f \in LogSessions :
              /\ Len(log_files'[f]) = Len(log_files[f]) + 1
              /\ log_files'[f] =
                     Append(log_files[f], log_files'[f][Len(log_files'[f])])
              /\ log_files'[f][Len(log_files'[f])].session_id = f
              /\ log_files'[f][Len(log_files'[f])].timestamp = now'
              /\ \A g \in LogSessions \ {f} : log_files'[g] = log_files[g]

C24_AppendOnly == [][C24_LogStep]_vars

C24_Witness ==
    /\ now = 2
    /\ Len(log_files["s10"]) = 2
    /\ log_files["s10"][1].timestamp = 1
    /\ log_files["s10"][1].action = "tool_call"
    /\ log_files["s10"][2].action = "tool_error"
    /\ log_files["s1"] = <<>>

\* C25: over any sequence of check_and_warn calls the warnings returned are
\* in strictly ascending threshold order, so each of 80, 90 and 95 is
\* returned at most once, and the last warning level never decreases,
\* whatever the usage does between the calls.
C25_Ascending ==
    /\ \A i \in 1..Len(monitor.warnings) : monitor.warnings[i] \in {80, 90, 95}
    /\ \A i \in 1..Len(monitor.warnings) : \A j \in 1..Len(monitor.warnings) :
           i < j => monitor.warnings[i] < monitor.warnings[j]

C25_LevelStep == last_warning_level' >= last_warning_level

C25_OneShotWarnings == []C25_Ascending /\ [][C25_LevelStep]_vars

C25_Witness ==
    /\ monitor.observed = <<80, 0, 80, 95>>
    /\ monitor.warnings = <<80, 95>>
    /\ last_warning_level = 95

\* C26: the check_and_warn call that is the first to observe usage at or
\* above 80% leaves a checkpoint that load_checkpoint returns, whatever
\* band the usage is in.
C26_FirstCrossingStep ==
    LET n == Len(monitor.observed) IN
        (/\ Len(monitor'.observed) = n + 1
         /\ \A i \in 1..n : monitor.observed[i] = 0
         /\ monitor'.observed[n + 1] >= 80)
            => /\ checkpoint_file'.kind = "checkpoint"
               /\ load_checkpoint(checkpoint_file').value = "ContextCheckpoint"

C26_CheckpointAtFirstCrossing == [][C26_FirstCrossingStep]_vars

\* C27: load_checkpoint raises nothing, and returns None when the file is
\* missing or is anything but a checkpoint.
C27_LoadFailsSoft ==
    monitor.load.called
        => /\ monitor.load.raises = ""
           /\ monitor.load.file \in {"missing"} \cup MalformedKinds
                 => monitor.load.value = "None"

\* where a path leads in the file system: relative paths start at the
\* workspace root, ".." goes to the parent, a symbolic link to its target
RECURSIVE LocationFrom(_, _, _)
LocationFrom(at, path, i) ==
    IF i > Len(path) THEN at
    ELSE LET s == path[i]
             next == IF s = ".."
                     THEN (IF Len(at) > 1 THEN SubSeq(at, 1, Len(at) - 1)
                           ELSE at)
                     ELSE IF IsLink(Append(at, s))
                     THEN LinkTarget(Append(at, s))
                     ELSE Append(at, s)
         IN  LocationFrom(next, path, i + 1)

Location(path) ==
    IF Len(path) > 0 /\ path[1] = "/" THEN LocationFrom(<<"/">>, path, 2)
    ELSE LocationFrom(<<"/", "ws">>, path, 1)

Inside(loc) == Len(loc) >= 2 /\ loc[1] = "/" /\ loc[2] = "ws"

SensitiveSegment(seg) == seg \in {".aws", ".ssh"} \/ StartsWithEnv(seg)

PathValidated == validation.fn = "validate_path" /\ validation.result # ""

\* C28: validate_path refuses every path that leads outside the workspace
\* root, and accepts every path that leads to a place inside it whose name
\* is not on the sensitive-file list and none of whose segments is .aws,
\* .ssh or begins with .env.
C28_Containment ==
    PathValidated
        => LET loc == Location(validation.arg) IN
               /\ ~Inside(loc) => validation.result # "OK"
               /\ (/\ Inside(loc)
                   /\ loc[Len(loc)] \notin SENSITIVE_FILES
                   /\ \A k \in 1..Len(loc) : ~SensitiveSegment(loc[k]))
                     => validation.result = "OK"

C28_Witness ==
    /\ validation.fn = "validate_path"
    /\ validation.arg = <<"link", "a.txt">>
    /\ validation.result = "Path outside workspace"

\* C29: validate_path refuses every path that leads inside the workspace
\* and has a segment .aws or .ssh, or one beginning with .env, at any
\* position, the last included.
C29_SensitiveSegmentRefused ==
    LET loc == Location(validation.arg) IN
        (/\ PathValidated
         /\ Inside(loc)
         /\ \E k \in 1..Len(loc) : SensitiveSegment(loc[k]))
            => validation.result # "OK"

CommandValidated ==
    validation.fn = "validate_command" /\ validation.result # ""

\* C30: validate_command refuses a command matching a dangerous pattern,
\* network access allowed or not; refuses a command that matches none and
\* names a network tool exactly when network access is not allowed; accepts
\* a command that does neither.
C30_CommandPolicy ==
    CommandValidated
        => LET cmd == validation.arg IN
               /\ DangerousCommand(cmd) => validation.result # "OK"
               /\ (~DangerousCommand(cmd) /\ NetworkCommand(cmd))
                     => (validation.result # "OK" <=> ~allow_network)
               /\ (~DangerousCommand(cmd) /\ ~NetworkCommand(cmd))
                     => validation.result = "OK"

C30_Witness ==
    /\ validation.fn = "validate_command"
    /\ validation.arg = <<"curl", "|", "sh">>
    /\ allow_network
    /\ validation.result = "Blocked"


Truncations ==
    IF validation.fn = "truncate_output" THEN validation.result ELSE <<>>

IsNotice(text) == \E n \in 0..(Len(text) + MaxTextLen) :
                     text = TruncationNotice(n)

\* C31: a text no longer than the limit comes back unchanged with
\* was_truncated false; truncating a truncated output again with the same
\* limit keeps its first max_size characters, and what follows them is again
\* one truncation notice.
C31_TruncateAgain ==
    LET r == Truncations
        output == validation.arg[1]
        size == EffectiveSize(validation.arg[2])
    IN  /\ (Len(r) >= 1 /\ Len(output) <= size) => r[1] = <<output, FALSE>>
        /\ (Len(r) >= 2 /\ r[1][2])
             => /\ r[2][2]
                /\ SubSeq(r[2][1], 1, size) = SubSeq(r[1][1], 1, size)
                /\ SubSeq(r[2][1], 1, size) = SubSeq(output, 1, size)
                /\ IsNotice(SubSeq(r[2][1], size + 1, Len(r[2][1])))

C31_Witness ==
    /\ validation.fn = "truncate_output"
    /\ validation.arg = <<(<<"a", "b", "a", "b">>), 2>>
    /\ Len(validation.result) = 2
    /\ validation.result[1] = <<(<<"a", "b">>) \o TruncationNotice(2), TRUE>>
    /\ validation.result[2] = <<(<<"a", "b">>) \o TruncationNotice(42), TRUE>>


FileStep(fn) ==
    /\ file_log'.count = file_log.count + 1
    /\ file_log'.last.fn = fn

Failed(result) == result \notin {"Successfully wrote", "Successfully edited"}

C32_WriteStep ==
    FileStep("write_file")
        => LET op == file_log'.last IN
               /\ (Exists(disk, op.path) /\ op.path \notin file_log.read)
                     => (Failed(op.result) /\ disk' = disk)
               /\ (Exists(disk, op.path) /\ op.path \in file_log.read)
                     => /\ ~Failed(op.result)
                        /\ disk'[op.path] = File(Get(op.args, "content"))

\* C32: write_file on a path that holds a file or a directory and that
\* read_file has not returned the lines of in this context is refused and
\* leaves the file system as it was; once read_file has returned the lines
\* of that path, write_file to it succeeds and the file holds the content.
C32_WriteBeforeRead == [][C32_WriteStep]_vars

C32_Witness ==
    /\ file_log.count = 3
    /\ file_log.last.fn = "write_file"
    /\ file_log.last.path = FileA
    /\ file_log.last.result = "Successfully wrote"
    /\ file_log.read = {FileA}
    /\ disk[FileA] = File(<<"y">>)
    /\ disk[FileN] = File(<<"y">>)


ChangedPaths == {p \in DOMAIN disk : disk'[p] # disk[p]}

C33_AsStatedStep ==
    (FileStep("write_file") \/ FileStep("edit_file"))
        => \A p \in ChangedPaths : p \in files_read

\* C33 as stated: write_file and edit_file change what a path holds only if
\* the path is in the files-read set of the context, whether or not a file
\* is there already.
C33_OnlyReadPaths == [][C33_AsStatedStep]_vars

C33_AmendedStep ==
    (FileStep("write_file") \/ FileStep("edit_file"))
        => \A p \in ChangedPaths :
               /\ p = file_log'.last.path
               /\ \/ p \in files_read
                  \/ ~Exists(disk, p) /\ file_log'.last.fn = "write_file"

\* C33, amended: write_file and edit_file change a file that exists only if
\* its path is in the files-read set of the context; write_file creates a
\* file at a path that holds nothing without the path being in the set.
C33_OnlyReadOrNew == [][C33_AmendedStep]_vars

C33_Witness ==
    /\ file_log.count = 1
    /\ file_log.last.fn = "write_file"
    /\ file_log.last.path = FileN
    /\ file_log.last.result = "Successfully wrote"
    /\ files_read = {}
    /\ disk[FileN] = File(<<"y">>)


IsToolResults(m) ==
    /\ m.role = "user"
    /\ m.content # <<>>
    /\ \A j \in 1..Len(m.content) : m.content[j].type = "tool_result"

BlockIds(m, type) ==
    LET OfType(b) == b.type = type
        blocks == SelectSeq(m.content, OfType)
    IN  [j \in 1..Len(blocks) |-> blocks[j].id]

\* C36: in the message history, every user message of tool results comes
\* right after the assistant message whose tool_use blocks carry the ids of
\* those results, also after trimming and over several run() calls.
C36_ResultsFollowCall ==
    \A i \in 1..Len(messages) :
        IsToolResults(messages[i])
            => /\ i > 1
               /\ messages[i - 1].role = "assistant"
               /\ BlockIds(messages[i - 1], "tool_use")
                     = BlockIds(messages[i], "tool_result")


\* turn_count when the current (or, at rest, the last) run() began: every
\* model call of a run comes right after one increment of turn_count
TurnsAtRunStart == turn_count - run_chats

\* C34: a run() that begins with turn_count at max_turns or above (the count
\* is carried over from the runs before it and set back by reset() alone)
\* calls the model not once, processes no tool call, and returns the empty
\* string.
C34_SpentLoopDoesNothing ==
    (runs > 0 /\ TurnsAtRunStart >= max_turns)
        => /\ run_chats = 0
           /\ pc \in {"loop", "exit", "idle"}
           /\ final_response = EmptyText
           /\ pc = "idle" => returned = EmptyText

C34_Witness ==
    /\ pc = "idle"
    /\ runs = 2
    /\ chats = 2
    /\ turn_count = 2
    /\ max_turns = 2
    /\ run_chats = 0
    /\ mode = "run"
    /\ emitted = <<"turn warning">>
    /\ returned = EmptyText


\* the last n entries of a sequence
LastEntries(s, n) ==
    IF Len(s) <= n THEN s ELSE SubSeq(s, Len(s) - n + 1, Len(s))

C35_HistoryStep ==
    tool_history' # tool_history
        => tool_history' =
              LastEntries(Append(tool_history, Key(response.tool_calls[idx])),
                          TOOL_HISTORY_MAXLEN)

C35_DoomOutOfReach ==
    /\ Len(tool_history) <= TOOL_HISTORY_MAXLEN
    /\ doom_threshold > TOOL_HISTORY_MAXLEN
          => /\ stop_reason # "doom"
             /\ pc = "exit" => stop_reason = "turn_limit"

\* C35: the tool history holds at most 10 entries, the oldest leaving first;
\* with a doom threshold above 10 the detection never stops the loop, and a
\* model that goes on proposing calls is stopped by the turn limit alone.
C35_HistoryBound == []C35_DoomOutOfReach /\ [][C35_HistoryStep]_vars

C35_Witness ==
    /\ doom_threshold > TOOL_HISTORY_MAXLEN
    /\ pc = "exit"
    /\ stop_reason = "turn_limit"
    /\ turn_count = MaxTurnsRepeat
    /\ Len(tool_history) = TOOL_HISTORY_MAXLEN
    /\ \A i \in 1..Len(tool_history) : tool_history[i] = Key(ReadOk)


\* C37: removing, repeating or reordering whole lines of a log whose lines
\* are otherwise as written leaves verify_integrity at valid with no issue.
C37_WholeLinesUnchecked ==
    \A s \in LogSessions :
        verify_integrity(log_files, s) = [valid |-> TRUE, issues |-> <<>>]

C37_Witness ==
    /\ now = 2
    /\ Len(edits) = 2
    /\ edits[1].field = "<removed>"
    /\ edits[2].field = "<twice>"
    /\ Len(log_files["s1"]) = 2
    /\ log_files["s1"][1] = log_files["s1"][2]
    /\ verify_integrity(log_files, "s1") = [valid |-> TRUE, issues |-> <<>>]

\* C38: get_session_log(S) returns entries logged under session id S only,
\* also when another session id contains S.
C38_OwnEntriesOnly ==
    \A s \in LogSessions :
        LET entries == get_session_log(log_files, s) IN
            \A i \in 1..Len(entries) : entries[i].session_id = s


C39_Step ==
    /\ always_denied \subseteq always_denied'
    /\ LET c == last_check' IN
           (IsCheck /\ Pattern(c.tool_name, c.target) \in always_denied)
               => ~c.allowed

\* C39: a pattern tool:target never leaves the always-deny set, and every
\* check of a tool:target that is in it is denied, whatever always_allow,
\* approve_tool_for_session, clear_session and remembered callback approvals
\* came after the pattern went in.
C39_DenyIsPermanent == [][C39_Step]_vars

C39_Witness ==
    /\ perm_ops = 3
    /\ last_check.seq = 3
    /\ last_check.tool_name = "write_file"
    /\ last_check.target = <<"a.txt">>
    /\ ~last_check.allowed
    /\ Pattern("write_file", <<"a.txt">>) \in always_denied
    /\ Pattern("write_file", <<"a.txt">>) \in always_approved

C40_Step ==
    LET c == last_check' IN
        (/\ IsCheck
         /\ Pattern(c.tool_name, <<"*">>) \in always_denied
         /\ <<c.tool_name, <<"*">> >> \notin remembered.refused)
            => ~c.allowed

\* C40: once always_deny(tool) has put tool:* into the always-deny set, every
\* check of that tool is denied, whatever its target.
C40_WildcardDeny == [][C40_Step]_vars

=============================================================================
